---- MODULE Spec2Model ----
(***************************************************************************)
(* dbtool: the table replication engine of src/main.go.                    *)
(*                                                                         *)
(* runWithConfig walks the configured tables one at a time and calls       *)
(* copyTable for each; copyTable counts the source rows, issues the        *)
(* extraction query, optionally creates the target table, writes the rows  *)
(* in committed batches inside write transactions, counts the target rows  *)
(* and reconciles the two counts.  Go strings are sequences of one-letter  *)
(* strings, so that trimming, prefix tests and quoting are computed.       *)
(***************************************************************************)
EXTENDS Integers, Sequences, FiniteSets, TLC

(***************************************************************************)
(* Bounds of the model.                                                    *)
(***************************************************************************)
MaxRows == 3

MaxBatch == 2

MaxTables == 3

MaxCols == 2

MaxMappings == 2

MaxIdent == 3

MaxList == 2

(***************************************************************************)
(* Program constants.                                                      *)
(***************************************************************************)
DefaultBatchSize == 1000

SampleRows == 5

(***************************************************************************)
(* Strings.                                                                *)
(***************************************************************************)
IsSpace(c) == c \in {" ", "\t", "\n"}

RECURSIVE TrimLeft(_)
TrimLeft(s) == IF s # <<>> /\ IsSpace(Head(s)) THEN TrimLeft(Tail(s)) ELSE s

RECURSIVE TrimRight(_)
TrimRight(s) ==
    IF s # <<>> /\ IsSpace(s[Len(s)])
    THEN TrimRight(SubSeq(s, 1, Len(s) - 1))
    ELSE s

TrimSpace(s) == TrimRight(TrimLeft(s))

HasPrefix(s, c) == Len(s) >= 1 /\ s[1] = c

HasSuffix(s, c) == Len(s) >= 1 /\ s[Len(s)] = c

HasPrefixStr(s, p) == Len(s) >= Len(p) /\ SubSeq(s, 1, Len(p)) = p

Contains(s, sub) ==
    \E i \in 0..(Len(s) - Len(sub)) : SubSeq(s, i + 1, i + Len(sub)) = sub

UpperChar(c) ==
    CASE c = "a" -> "A"
      [] c = "b" -> "B"
      [] c = "c" -> "C"
      [] c = "d" -> "D"
      [] c = "e" -> "E"
      [] c = "f" -> "F"
      [] c = "g" -> "G"
      [] c = "h" -> "H"
      [] c = "i" -> "I"
      [] c = "j" -> "J"
      [] c = "k" -> "K"
      [] c = "l" -> "L"
      [] c = "m" -> "M"
      [] c = "n" -> "N"
      [] c = "o" -> "O"
      [] c = "p" -> "P"
      [] c = "q" -> "Q"
      [] c = "r" -> "R"
      [] c = "s" -> "S"
      [] c = "t" -> "T"
      [] c = "u" -> "U"
      [] c = "v" -> "V"
      [] c = "w" -> "W"
      [] c = "x" -> "X"
      [] c = "y" -> "Y"
      [] c = "z" -> "Z"
      [] OTHER -> c

ToUpper(s) == [i \in 1..Len(s) |-> UpperChar(s[i])]

firstNonEmpty(a, b) == IF TrimSpace(a) # <<>> THEN a ELSE b

(***************************************************************************)
(* Dialects.  The grave accent MySQL quotes with cannot be written inside  *)
(* a TLA+ string, so the letter is named.                                  *)
(***************************************************************************)
Backtick == "BQ"

normalizeDriver(d) == IF d = "mssql" THEN "sqlserver" ELSE d

quoteIdentAlwaysWraps(name, driver) ==
    LET n == TrimSpace(name)
        d == normalizeDriver(driver)
    IN  IF n = <<>> THEN n
        ELSE CASE d \in {"postgres", "postgresql"} -> <<"\"">> \o n \o <<"\"">>
               [] d = "sqlserver" -> <<"[">> \o n \o <<"]">>
               [] d = "oracle" -> <<"\"">> \o ToUpper(n) \o <<"\"">>
               [] OTHER -> <<Backtick>> \o n \o <<Backtick>>

quoteIdent(name, driver) ==
    LET n == TrimSpace(name)
        d == normalizeDriver(driver)
    IN  IF n = <<>> THEN n
        ELSE CASE d \in {"postgres", "postgresql"} ->
                    IF HasPrefix(n, "\"") /\ HasSuffix(n, "\"") THEN n
                    ELSE <<"\"">> \o n \o <<"\"">>
               [] d = "sqlserver" ->
                    IF HasPrefix(n, "[") /\ HasSuffix(n, "]") THEN n
                    ELSE <<"[">> \o n \o <<"]">>
               [] d = "oracle" ->
                    IF HasPrefix(n, "\"") /\ HasSuffix(n, "\"") THEN n
                    ELSE <<"\"">> \o ToUpper(n) \o <<"\"">>
               [] OTHER ->
                    IF HasPrefix(n, Backtick) /\ HasSuffix(n, Backtick) THEN n
                    ELSE <<Backtick>> \o n \o <<Backtick>>

(***************************************************************************)
(* The two stores.  The source holds one table s with the columns k (the   *)
(* key, 1..n for the n rows) and a; the user predicate w holds of the rows *)
(* with an odd key.  The target holds the tables s and x, each absent or   *)
(* holding a number of committed rows.                                     *)
(***************************************************************************)
SrcDriver == "mysql"

TblS == <<"s">>

TblX == <<"x">>

ColK == <<"k">>

ColA == <<"a">>

ColI == <<"i">>

PredW == <<"w">>

StmtQ == <<"q">>

Star == << <<"*">> >>

SrcColumns == <<ColK, ColA>>

TblUpperS == <<"S">>

TargetNames == {TblS, TblX, TblUpperS}

Absent == -1

Row(i) == [k |-> i, sat |-> i % 2 = 1]

Unquote(q) ==
    IF Len(q) >= 2 /\ q[1] \in {"\"", Backtick, "["}
    THEN SubSeq(q, 2, Len(q) - 1)
    ELSE q

DigitVal(c) ==
    CASE c = "0" -> 0 [] c = "1" -> 1 [] c = "2" -> 2 [] c = "3" -> 3
      [] c = "4" -> 4 [] c = "5" -> 5 [] c = "6" -> 6 [] c = "7" -> 7
      [] c = "8" -> 8 [] c = "9" -> 9 [] OTHER -> -1

RECURSIVE LitVal(_)
LitVal(s) ==
    IF s = <<>> THEN 0
    ELSE 10 * LitVal(SubSeq(s, 1, Len(s) - 1)) + DigitVal(s[Len(s)])

IsNumber(s) == s # <<>> /\ \A i \in 1..Len(s) : DigitVal(s[i]) >= 0

SeqRange(s) == {s[i] : i \in 1..Len(s)}

(***************************************************************************)
(* Query planner: the statements copyTable builds, as terms.               *)
(***************************************************************************)
UserClause(text) == [op |-> "user", text |-> text, col |-> <<>>, lit |-> <<>>]

KeyClause(op, col, lit) == [op |-> op, text |-> <<>>, col |-> col, lit |-> lit]

RECURSIVE MappedSources(_)
MappedSources(columns) ==
    IF columns = <<>> THEN <<>>
    ELSE IF TrimSpace(Head(columns).Source) = <<>>
         THEN MappedSources(Tail(columns))
         ELSE <<Head(columns).Source>> \o MappedSources(Tail(columns))

buildSelectColumns(o) ==
    IF Len(o.Columns) = 0 THEN Star
    ELSE IF MappedSources(o.Columns) = <<>> THEN Star
         ELSE MappedSources(o.Columns)

CountWhere(o) ==
    IF TrimSpace(o.Where) # <<>> THEN <<UserClause(o.Where)>> ELSE <<>>

CountQueryOf(o) ==
    IF TrimSpace(o.SelectSQL) # <<>>
    THEN [kind |-> "count_sub", from |-> o.SelectSQL, cols |-> <<>>, where |-> <<>>]
    ELSE [kind |-> "count", from |-> o.Table, cols |-> <<>>, where |-> CountWhere(o)]

ExtractWhere(o, driver) ==
    (IF TrimSpace(o.Where) # <<>> THEN <<UserClause(o.Where)>> ELSE <<>>)
    \o (IF TrimSpace(o.IncrementalKey) # <<>> /\ TrimSpace(o.Since) # <<>>
        THEN <<KeyClause("gt", quoteIdent(o.IncrementalKey, driver), o.Since)>>
        ELSE <<>>)
    \o (IF TrimSpace(o.IncrementalKey) # <<>> /\ TrimSpace(o.Until) # <<>>
        THEN <<KeyClause("le", quoteIdent(o.IncrementalKey, driver), o.Until)>>
        ELSE <<>>)

ExtractQueryOf(o, driver) ==
    IF TrimSpace(o.SelectSQL) # <<>>
    THEN [kind |-> "custom", from |-> o.SelectSQL, cols |-> <<>>, where |-> <<>>]
    ELSE [kind |-> "select", from |-> o.Table, cols |-> buildSelectColumns(o),
          where |-> ExtractWhere(o, driver)]

(***************************************************************************)
(* The source store's answer to a statement over a table of n rows.        *)
(***************************************************************************)
ParseSelect(sql) ==
    IF TrimSpace(sql) = StmtQ
    THEN [kind |-> "select", from |-> TblS, cols |-> SrcColumns,
          where |-> <<UserClause(PredW)>>]
    ELSE [kind |-> "invalid", from |-> <<>>, cols |-> <<>>, where |-> <<>>]

Plain(q) == IF q.kind \in {"custom", "count_sub"} THEN ParseSelect(q.from) ELSE q

ClauseValid(c) ==
    IF c.op = "user" THEN TrimSpace(c.text) = PredW
    ELSE Unquote(c.col) \in SeqRange(SrcColumns) /\ IsNumber(TrimSpace(c.lit))

Satisfies(r, c) ==
    CASE c.op = "user" -> r.sat
      [] c.op = "gt" -> r.k > LitVal(TrimSpace(c.lit))
      [] c.op = "le" -> r.k <= LitVal(TrimSpace(c.lit))

QueryValid(q) ==
    LET p == Plain(q)
    IN  /\ p.kind # "invalid"
        /\ TrimSpace(p.from) = TblS
        /\ \A i \in 1..Len(p.cols) :
              p.cols = Star \/ TrimSpace(p.cols[i]) \in SeqRange(SrcColumns)
        /\ \A i \in 1..Len(p.where) : ClauseValid(p.where[i])

MatchingRows(q, n) ==
    LET p == Plain(q)
    IN  {i \in 1..n : \A j \in 1..Len(p.where) : Satisfies(Row(i), p.where[j])}

ResultColumns(q) ==
    LET p == Plain(q)
    IN  IF p.cols = Star \/ p.cols = <<>> THEN SrcColumns
        ELSE [i \in 1..Len(p.cols) |-> TrimSpace(p.cols[i])]

(***************************************************************************)
(* Insert planning: the target columns, the statement and the arguments.   *)
(***************************************************************************)
MappingTargetIsSource(c) == TrimSpace(c.Source)

MappingTarget(c) ==
    IF TrimSpace(c.Target) = <<>> THEN TrimSpace(c.Source) ELSE TrimSpace(c.Target)

Mapped(columns) == {i \in 1..Len(columns) : TrimSpace(columns[i].Source) # <<>>}

SourceOf(c) == TrimSpace(c.Source)

LastSource(columns, s) ==
    CHOOSE i \in Mapped(columns) :
        /\ SourceOf(columns[i]) = s
        /\ \A j \in Mapped(columns) : SourceOf(columns[j]) = s => j <= i

LastTarget(columns, t) ==
    CHOOSE i \in Mapped(columns) :
        /\ MappingTarget(columns[i]) = t
        /\ \A j \in Mapped(columns) : MappingTarget(columns[j]) = t => j <= i

SourceToTarget(columns) ==
    [s \in {SourceOf(columns[i]) : i \in Mapped(columns)} |->
        MappingTarget(columns[LastSource(columns, s)])]

TargetToSource(columns) ==
    [t \in {MappingTarget(columns[i]) : i \in Mapped(columns)} |->
        SourceOf(columns[LastTarget(columns, t)])]

RECURSIVE MapColumns(_, _)
MapColumns(sourceCols, mapping) ==
    IF sourceCols = <<>> THEN <<>>
    ELSE (IF Head(sourceCols) \in DOMAIN mapping
          THEN <<mapping[Head(sourceCols)]>> ELSE <<>>)
         \o MapColumns(Tail(sourceCols), mapping)

buildInsertColumns(sourceCols, o) ==
    IF Len(o.Columns) = 0 THEN sourceCols
    ELSE IF MapColumns(sourceCols, SourceToTarget(o.Columns)) = <<>> THEN sourceCols
         ELSE MapColumns(sourceCols, SourceToTarget(o.Columns))

IndexOf(sourceCols, name) ==
    IF name \in SeqRange(sourceCols)
    THEN CHOOSE i \in 1..Len(sourceCols) :
            sourceCols[i] = name /\ \A j \in 1..Len(sourceCols) : sourceCols[j] = name => j <= i
    ELSE 0

Nil == "NULL"

ArgForNameFirst(sourceCols, targetCol, values, o) ==
    LET t2s == TargetToSource(o.Columns)
        viaMapping == IF targetCol \in DOMAIN t2s THEN IndexOf(sourceCols, t2s[targetCol]) ELSE 0
        viaName == IndexOf(sourceCols, targetCol)
    IN  IF viaName # 0 THEN values[viaName]
        ELSE IF viaMapping # 0 THEN values[viaMapping]
        ELSE Nil

ArgFor(sourceCols, targetCol, values, o) ==
    LET t2s == TargetToSource(o.Columns)
        viaMapping == IF targetCol \in DOMAIN t2s THEN IndexOf(sourceCols, t2s[targetCol]) ELSE 0
        viaName == IndexOf(sourceCols, targetCol)
    IN  IF viaMapping # 0 THEN values[viaMapping]
        ELSE IF viaName # 0 THEN values[viaName]
        ELSE Nil

reorderArgs(sourceCols, insertCols, values, o) ==
    IF Len(insertCols) = 0 \/ Len(sourceCols) = 0 THEN values
    ELSE [i \in 1..Len(insertCols) |-> ArgFor(sourceCols, insertCols[i], values, o)]

DigitChar(d) ==
    CASE d = 0 -> "0" [] d = 1 -> "1" [] d = 2 -> "2" [] d = 3 -> "3" [] d = 4 -> "4"
      [] d = 5 -> "5" [] d = 6 -> "6" [] d = 7 -> "7" [] d = 8 -> "8" [] OTHER -> "9"

RECURSIVE Itoa(_)
Itoa(n) == IF n < 10 THEN <<DigitChar(n)>> ELSE Itoa(n \div 10) \o <<DigitChar(n % 10)>>

PlaceholderFromZero(driver, i) ==
    CASE normalizeDriver(driver) \in {"postgres", "postgresql"} -> <<"$">> \o Itoa(i - 1)
      [] normalizeDriver(driver) = "oracle" -> <<":">> \o Itoa(i - 1)
      [] OTHER -> <<"?">>

Placeholder(driver, i) ==
    CASE normalizeDriver(driver) \in {"postgres", "postgresql"} -> <<"$">> \o Itoa(i)
      [] normalizeDriver(driver) = "oracle" -> <<":">> \o Itoa(i)
      [] OTHER -> <<"?">>

NoStatement == [err |-> TRUE, table |-> <<>>, cols |-> <<>>, values |-> <<>>]

buildInsertSQL(table, columns, driver) ==
    IF table = <<>> \/ Len(columns) = 0 THEN NoStatement
    ELSE [err |-> FALSE,
          table |-> quoteIdent(table, driver),
          cols |-> [i \in 1..Len(columns) |-> quoteIdent(columns[i], driver)],
          values |-> [i \in 1..Len(columns) |-> Placeholder(driver, i)]]

RowValues(sourceCols, i) ==
    [j \in 1..Len(sourceCols) |->
        IF sourceCols[j] = ColK THEN <<"k", i>> ELSE <<"a", i>>]

(***************************************************************************)
(* Type translation and the CREATE TABLE statement.  Type names are the    *)
(* texts the code compares and returns.                                    *)
(***************************************************************************)
Ty ==
    [BIGINT |-> <<"B", "I", "G", "I", "N", "T">>,
     INT |-> <<"I", "N", "T">>,
     INTEGER |-> <<"I", "N", "T", "E", "G", "E", "R">>,
     SMALLINT |-> <<"S", "M", "A", "L", "L", "I", "N", "T">>,
     TINYINT |-> <<"T", "I", "N", "Y", "I", "N", "T">>,
     DOUBLE |-> <<"D", "O", "U", "B", "L", "E">>,
     FLOAT |-> <<"F", "L", "O", "A", "T">>,
     REAL |-> <<"R", "E", "A", "L">>,
     DECIMAL |-> <<"D", "E", "C", "I", "M", "A", "L">>,
     NUMERIC |-> <<"N", "U", "M", "E", "R", "I", "C">>,
     BOOL |-> <<"B", "O", "O", "L">>,
     DATE |-> <<"D", "A", "T", "E">>,
     TIME |-> <<"T", "I", "M", "E">>,
     TEXT |-> <<"T", "E", "X", "T">>,
     CHAR |-> <<"C", "H", "A", "R">>,
     CLOB |-> <<"C", "L", "O", "B">>,
     VARCHAR |-> <<"V", "A", "R", "C", "H", "A", "R">>,
     BIT |-> <<"B", "I", "T">>,
     NCHAR |-> <<"N", "C", "H", "A", "R">>,
     NVARCHAR |-> <<"N", "V", "A", "R", "C", "H", "A", "R">>,
     NUMBER |-> <<"N", "U", "M", "B", "E", "R">>,
     BINARY_FLOAT |-> <<"B", "I", "N", "A", "R", "Y", "_", "F", "L", "O", "A", "T">>,
     TIMESTAMP |-> <<"T", "I", "M", "E", "S", "T", "A", "M", "P">>,
     BOOLEAN |-> <<"B", "O", "O", "L", "E", "A", "N">>,
     DATETIME |-> <<"D", "A", "T", "E", "T", "I", "M", "E">>,
     DATETIME2 |-> <<"D", "A", "T", "E", "T", "I", "M", "E", "2">>,
     BINARY_DOUBLE |-> <<"B", "I", "N", "A", "R", "Y", "_", "D", "O", "U", "B", "L", "E">>,
     DOUBLE_PRECISION |-> <<"D", "O", "U", "B", "L", "E", " ", "P", "R", "E", "C", "I", "S", "I", "O", "N">>,
     DECIMAL_18_6 |-> <<"D", "E", "C", "I", "M", "A", "L", "(", "1", "8", ",", "6", ")">>,
     TINYINT_1 |-> <<"T", "I", "N", "Y", "I", "N", "T", "(", "1", ")">>,
     VARCHAR_255 |-> <<"V", "A", "R", "C", "H", "A", "R", "(", "2", "5", "5", ")">>,
     FLOAT_53 |-> <<"F", "L", "O", "A", "T", "(", "5", "3", ")">>,
     NVARCHAR_MAX |-> <<"N", "V", "A", "R", "C", "H", "A", "R", "(", "M", "A", "X", ")">>,
     VARCHAR2_4000 |-> <<"V", "A", "R", "C", "H", "A", "R", "2", "(", "4", "0", "0", "0", ")">>]

LargeTableColumns == 30

mapColumnType(ct, driver) ==
    LET dbType == ToUpper(ct.DatabaseTypeName)
        d == normalizeDriver(driver)
        Has(w) == Contains(dbType, w)
    IN  IF d \in {"postgres", "postgresql"}
        THEN IF Has(Ty.BIGINT) THEN Ty.BIGINT
             ELSE IF Has(Ty.INT) THEN Ty.BIGINT
             ELSE IF Has(Ty.DOUBLE) \/ Has(Ty.FLOAT) \/ Has(Ty.REAL) THEN Ty.DOUBLE_PRECISION
             ELSE IF Has(Ty.DECIMAL) \/ Has(Ty.NUMERIC) THEN Ty.NUMERIC
             ELSE IF Has(Ty.BOOL) THEN Ty.BOOLEAN
             ELSE IF Has(Ty.DATE) \/ Has(Ty.TIME) THEN Ty.TIMESTAMP
             ELSE IF Has(Ty.TEXT) \/ Has(Ty.CHAR) \/ Has(Ty.CLOB) THEN Ty.TEXT
             ELSE Ty.TEXT
        ELSE IF d = "mysql"
        THEN IF Has(Ty.INT) THEN Ty.INT
             ELSE IF Has(Ty.BIGINT) THEN Ty.BIGINT
             ELSE IF Has(Ty.DOUBLE) \/ Has(Ty.FLOAT) THEN Ty.DOUBLE
             ELSE IF Has(Ty.DECIMAL) \/ Has(Ty.NUMERIC) THEN Ty.DECIMAL_18_6
             ELSE IF Has(Ty.BOOL) \/ Has(Ty.TINYINT_1) THEN Ty.TINYINT_1
             ELSE IF Has(Ty.DATE) \/ Has(Ty.TIME) THEN Ty.DATETIME
             ELSE IF Has(Ty.TEXT) THEN Ty.TEXT
             ELSE IF Has(Ty.CHAR) THEN Ty.VARCHAR_255
             ELSE Ty.TEXT
        ELSE IF d = "sqlserver"
        THEN IF Has(Ty.INT) THEN Ty.INT
             ELSE IF Has(Ty.BIGINT) THEN Ty.BIGINT
             ELSE IF Has(Ty.FLOAT) \/ Has(Ty.REAL) THEN Ty.FLOAT_53
             ELSE IF Has(Ty.DECIMAL) \/ Has(Ty.NUMERIC) THEN Ty.DECIMAL_18_6
             ELSE IF Has(Ty.BIT) THEN Ty.BIT
             ELSE IF Has(Ty.DATE) \/ Has(Ty.TIME) THEN Ty.DATETIME2
             ELSE IF Has(Ty.CHAR) \/ Has(Ty.TEXT) \/ Has(Ty.NCHAR) \/ Has(Ty.NVARCHAR)
                  THEN Ty.NVARCHAR_MAX
             ELSE Ty.NVARCHAR_MAX
        ELSE IF d = "oracle"
        THEN IF Has(Ty.INT) \/ Has(Ty.NUMBER) THEN Ty.NUMBER
             ELSE IF Has(Ty.FLOAT) \/ Has(Ty.BINARY_FLOAT) THEN Ty.BINARY_DOUBLE
             ELSE IF Has(Ty.DATE) \/ Has(Ty.TIMESTAMP) THEN Ty.TIMESTAMP
             ELSE IF Has(Ty.CHAR) \/ Has(Ty.VARCHAR) \/ Has(Ty.CLOB) THEN Ty.CLOB
             ELSE Ty.VARCHAR2_4000
        ELSE IF Has(Ty.INT) THEN Ty.INTEGER
             ELSE IF Has(Ty.DOUBLE) \/ Has(Ty.FLOAT) \/ Has(Ty.REAL) THEN Ty.REAL
             ELSE IF Has(Ty.DECIMAL) \/ Has(Ty.NUMERIC) THEN Ty.NUMERIC
             ELSE Ty.TEXT

ColCfgKeys(columns) ==
    {columns[i].Source : i \in {j \in 1..Len(columns) : TrimSpace(columns[j].Source) # <<>>}}

ColCfg(columns, name) ==
    columns[CHOOSE i \in 1..Len(columns) :
                /\ columns[i].Source = name
                /\ \A j \in 1..Len(columns) : columns[j].Source = name => j <= i]

useTextForAnyDialect(driver, n) == n > LargeTableColumns

useTextForLargeFields(driver, n) == driver = "mysql" /\ n > LargeTableColumns

TargetTypeOf(ct, columns, driver, useText) ==
    LET hasCfg == ct.Name \in ColCfgKeys(columns)
        chosen == IF hasCfg /\ TrimSpace(ColCfg(columns, ct.Name).TargetType) # <<>>
                  THEN TrimSpace(ColCfg(columns, ct.Name).TargetType)
                  ELSE mapColumnType(ct, driver)
    IN  IF useText /\ (HasPrefixStr(chosen, Ty.VARCHAR) \/ HasPrefixStr(chosen, Ty.CHAR))
        THEN Ty.TEXT
        ELSE chosen

ColumnDefinition(ct, columns, driver, useText) ==
    LET hasCfg == ct.Name \in ColCfgKeys(columns)
    IN  [name |-> quoteIdent(IF hasCfg /\ TrimSpace(ColCfg(columns, ct.Name).Target) # <<>>
                             THEN TrimSpace(ColCfg(columns, ct.Name).Target)
                             ELSE ct.Name,
                             driver),
         type |-> TargetTypeOf(ct, columns, driver, useText),
         notNull |-> IF hasCfg /\ ColCfg(columns, ct.Name).Nullable # "nil"
                     THEN ColCfg(columns, ct.Name).Nullable = "false"
                     ELSE ct.Nullable = "false",
         default |-> IF hasCfg /\ TrimSpace(ColCfg(columns, ct.Name).DefaultValue) # <<>>
                     THEN ColCfg(columns, ct.Name).DefaultValue
                     ELSE <<>>]

NoDDL == [err |-> TRUE, table |-> <<>>, defs |-> <<>>]

buildCreateTableDDL(table, colTypes, driver, o) ==
    IF table = <<>> \/ Len(colTypes) = 0 THEN NoDDL
    ELSE [err |-> FALSE,
          table |-> quoteIdent(table, normalizeDriver(driver)),
          defs |-> [i \in 1..Len(colTypes) |->
                      ColumnDefinition(colTypes[i], o.Columns, normalizeDriver(driver),
                                       useTextForLargeFields(normalizeDriver(driver),
                                                             Len(colTypes)))]]

ColumnTypes(columns) ==
    [i \in 1..Len(columns) |->
        [Name |-> columns[i],
         DatabaseTypeName |-> IF columns[i] = <<"k">> THEN Ty.INT ELSE Ty.VARCHAR,
         Nullable |-> "unknown"]]

(***************************************************************************)
(* Reconciliation.                                                         *)
(***************************************************************************)
ClassifyReversed(sc, tc) ==
    IF sc >= 0 /\ tc >= 0
    THEN IF tc - sc = 0 THEN "match"
         ELSE IF sc - tc > 0 THEN "surplus" ELSE "deficit"
    ELSE "none"

Classify(sc, tc) ==
    IF sc >= 0 /\ tc >= 0
    THEN IF tc - sc = 0 THEN "match"
         ELSE IF tc - sc > 0 THEN "surplus" ELSE "deficit"
    ELSE "none"

VerificationResult(name, sc, tc, mc) ==
    [TableName |-> name, SourceCount |-> sc, TargetCount |-> tc, MigratedCount |-> mc,
     Diff |-> IF sc >= 0 /\ tc >= 0 THEN tc - sc ELSE 0,
     HasDiff |-> sc >= 0 /\ tc >= 0 /\ tc - sc # 0]

AggregateClassNeverMatch(d) == IF d > 0 THEN "surplus" ELSE "deficit"

AggregateClass(d) == IF d = 0 THEN "match" ELSE IF d > 0 THEN "surplus" ELSE "deficit"

(***************************************************************************)
(* State.                                                                  *)
(*   cliDryRun, numTables, cfgTables : the run's inputs (the -dry-run flag,*)
(*       the length of the table list, the family its entries come from)   *)
(*   srcN, target : the source table's row count; the target's committed   *)
(*       rows per table                                                    *)
(*   ti, pc : runWithConfig's loop index and the control position          *)
(*   opts .. ret : copyTable's parameters, locals and returned tuple       *)
(*   results .. report : runWithConfig's aggregator                        *)
(*   target0, invoked, commits, dstLog, srcCountErr, tgtCountErr,          *)
(*   tgtBefore : history, read by the properties only                      *)
(*   dstDriver : the target's driver tag                                   *)
(*   call : the arguments and the result of one call of a function that    *)
(*       is examined on its own                                            *)
(***************************************************************************)
VARIABLES cliDryRun, numTables, cfgTables, srcN, target,
          ti, pc,
          opts, targetTable, sourceCount, targetCount, countQuery, query,
          nrows, fetched, cols, insertColumns, insertSQL, args,
          tx, deferred, cleanup, count, batchCount, samples, classification, ret,
          results, totalSourceCount, totalTargetCount, totalMigratedCount,
          diffTableCount, report,
          target0, invoked, commits, dstLog,
          srcCountErr, tgtCountErr, tgtBefore,
          dstDriver, call

inputs == <<cliDryRun, numTables, cfgTables, srcN, target0, dstDriver, call>>

DstDriver == dstDriver

planVars == <<countQuery, query, nrows, cols, insertColumns, insertSQL>>

loopVars == <<fetched, args, count, batchCount, samples>>

aggVars == <<results, totalSourceCount, totalTargetCount, totalMigratedCount,
             diffTableCount, report>>

vars == <<cliDryRun, numTables, cfgTables, srcN, target,
          ti, pc,
          opts, targetTable, sourceCount, targetCount, countQuery, query,
          nrows, fetched, cols, insertColumns, insertSQL, args,
          tx, deferred, cleanup, count, batchCount, samples, classification, ret,
          results, totalSourceCount, totalTargetCount, totalMigratedCount,
          diffTableCount, report,
          target0, invoked, commits, dstLog,
          srcCountErr, tgtCountErr, tgtBefore,
          dstDriver, call>>

(***************************************************************************)
(* Inputs: the table entries a configuration may hold.                     *)
(***************************************************************************)
Empty == <<>>

Blank == <<" ">>

NoColumns == <<>>

RenameK ==
    <<[Source |-> ColK, Target |-> ColI, TargetType |-> Empty, Nullable |-> "nil",
       DefaultValue |-> Empty]>>

TxJobs ==
    [SourceTable : {Empty, TblS}, TargetTable : {Empty}, Where : {Empty},
     BatchSize : 0..MaxBatch, AutoCreate : BOOLEAN,
     IncrementalKey : {Empty}, Since : {Empty}, Until : {Empty},
     Columns : {NoColumns}, SelectSQL : {Empty}]

PlanJobs ==
    [SourceTable : {Blank, TblS}, TargetTable : {Blank}, Where : {Empty, Blank, PredW},
     BatchSize : {MaxBatch}, AutoCreate : {TRUE},
     IncrementalKey : {Empty, ColK}, Since : {Empty, <<"1">>}, Until : {Empty, <<"2">>},
     Columns : {NoColumns, RenameK}, SelectSQL : {Empty, Blank, StmtQ}]

BatchJobs ==
    [SourceTable : {Empty, TblS}, TargetTable : {Empty}, Where : {Empty},
     BatchSize : {0, DefaultBatchSize}, AutoCreate : BOOLEAN,
     IncrementalKey : {Empty}, Since : {Empty}, Until : {Empty},
     Columns : {NoColumns}, SelectSQL : {Empty}]

CreateJobs ==
    [SourceTable : {Empty, TblS}, TargetTable : {Empty, quoteIdent(TblS, DstDriver)},
     Where : {Empty}, BatchSize : {MaxBatch}, AutoCreate : BOOLEAN,
     IncrementalKey : {Empty}, Since : {Empty}, Until : {Empty},
     Columns : {NoColumns}, SelectSQL : {Empty}]

SummaryJobs ==
    [SourceTable : {Empty, TblS}, TargetTable : {Empty, TblX},
     Where : {Empty}, BatchSize : {1}, AutoCreate : BOOLEAN,
     IncrementalKey : {Empty}, Since : {Empty}, Until : {Empty},
     Columns : {NoColumns}, SelectSQL : {Empty}]

Tables(kind) ==
    CASE kind = "plan" -> PlanJobs
      [] kind = "create" -> CreateJobs
      [] kind = "summary" -> SummaryJobs
      [] kind = "batch" -> BatchJobs
      [] OTHER -> TxJobs

NoOpts ==
    [Table |-> Empty, TargetTable |-> Empty, Where |-> Empty, BatchSize |-> 0,
     DryRun |-> FALSE, Columns |-> NoColumns, AutoCreate |-> FALSE,
     IncrementalKey |-> Empty, Since |-> Empty, Until |-> Empty, SelectSQL |-> Empty]

NoQuery == [kind |-> "none", from |-> <<>>, cols |-> <<>>, where |-> <<>>]

NilTx == [state |-> "nil", pending |-> 0]

OpenTx == [state |-> "open", pending |-> 0]

NoRet == [migrated |-> 0, source |-> 0, target |-> 0, err |-> "unset"]

NoReport == [totalDiff |-> 0, class |-> "none", listed |-> <<>>]

NoLog ==
    [insert |-> 0, ddl |-> 0, commit |-> 0, begin |-> 0,
     probe |-> "none", built |-> 0, issued |-> 0]

NoCall == [fn |-> "none"]

JobIdle ==
    /\ opts = NoOpts /\ targetTable = Empty
    /\ sourceCount = 0 /\ targetCount = 0
    /\ countQuery = NoQuery /\ query = NoQuery
    /\ nrows = 0 /\ fetched = 0 /\ cols = <<>> /\ insertColumns = <<>>
    /\ insertSQL = NoStatement /\ args = <<>>
    /\ tx = NilTx /\ deferred = FALSE /\ cleanup = "none"
    /\ count = 0 /\ batchCount = 0 /\ samples = 0
    /\ classification = "none" /\ ret = NoRet
    /\ commits = <<>> /\ dstLog = NoLog
    /\ srcCountErr = FALSE /\ tgtCountErr = FALSE /\ tgtBefore = Absent

JobReset ==
    /\ opts' = NoOpts /\ targetTable' = Empty
    /\ sourceCount' = 0 /\ targetCount' = 0
    /\ countQuery' = NoQuery /\ query' = NoQuery
    /\ nrows' = 0 /\ fetched' = 0 /\ cols' = <<>> /\ insertColumns' = <<>>
    /\ insertSQL' = NoStatement /\ args' = <<>>
    /\ tx' = NilTx /\ deferred' = FALSE /\ cleanup' = "none"
    /\ count' = 0 /\ batchCount' = 0 /\ samples' = 0
    /\ classification' = "none" /\ ret' = NoRet
    /\ commits' = <<>> /\ dstLog' = NoLog
    /\ srcCountErr' = FALSE /\ tgtCountErr' = FALSE /\ tgtBefore' = Absent

RunIdle ==
    /\ ti = 1 /\ pc = "loop"
    /\ results = <<>>
    /\ totalSourceCount = 0 /\ totalTargetCount = 0 /\ totalMigratedCount = 0
    /\ diffTableCount = 0 /\ report = NoReport
    /\ invoked = <<>>

TargetStores == {[t \in TargetNames |-> b] : b \in {Absent, 0, 1}}

Init ==
    /\ cliDryRun \in BOOLEAN
    /\ numTables \in 1..MaxTables
    /\ cfgTables = "tx"
    /\ srcN \in 0..MaxRows
    /\ target \in TargetStores
    /\ target0 = target
    /\ RunIdle
    /\ JobIdle
    /\ dstDriver = "postgres"
    /\ call = NoCall

InitPlan ==
    /\ cliDryRun \in BOOLEAN
    /\ numTables = 1
    /\ cfgTables = "plan"
    /\ srcN = MaxRows
    /\ target \in TargetStores
    /\ target0 = target
    /\ RunIdle
    /\ JobIdle
    /\ dstDriver = "postgres"
    /\ call = NoCall

InitBatch ==
    /\ cliDryRun \in BOOLEAN
    /\ numTables = 1
    /\ srcN \in (0..MaxRows) \cup {2000, 2500}
    /\ cfgTables = IF srcN <= MaxRows THEN "tx" ELSE "batch"
    /\ target \in TargetStores
    /\ target0 = target
    /\ RunIdle
    /\ JobIdle
    /\ dstDriver = "postgres"
    /\ call = NoCall

Drivers == {"postgres", "mysql", "sqlite3", "sqlserver", "mssql", "oracle", "other"}

InitCreate ==
    /\ cliDryRun \in BOOLEAN
    /\ numTables = 2
    /\ cfgTables = "create"
    /\ srcN = MaxBatch
    /\ target \in TargetStores
    /\ target0 = target
    /\ RunIdle
    /\ JobIdle
    /\ dstDriver \in Drivers
    /\ call = NoCall

SummaryStores == {st \in [TargetNames -> {Absent, 0, 2}] : st[TblUpperS] = Absent}

InitSummary ==
    /\ cliDryRun \in BOOLEAN
    /\ numTables = 2
    /\ cfgTables = "summary"
    /\ srcN \in {1, SampleRows + 1}
    /\ target \in SummaryStores
    /\ target0 = target
    /\ RunIdle
    /\ JobIdle
    /\ dstDriver = "postgres"
    /\ call = NoCall

(***************************************************************************)
(* copyTable.                                                              *)
(***************************************************************************)
TableRows(store, name) == IF name \in DOMAIN store THEN store[name] ELSE Absent

WriteTable == Unquote(insertSQL.table)

BatchOrDefault(b) == IF b <= 0 THEN DefaultBatchSize ELSE b

CountOrZero(failed, n) == IF failed THEN 0 ELSE n

CountOrUnknown(failed, n) == IF failed THEN -1 ELSE n

BatchFullOffByOne(o, bc) == ~o.DryRun /\ bc > o.BatchSize

BatchFull(o, bc) == ~o.DryRun /\ bc >= o.BatchSize

DeferredLeavesOpen(t) == t

Deferred(t) == IF t.state = "open" THEN [state |-> "rolledback", pending |-> 0] ELSE t

CommittedStaysOpen(t) == t

Committed(t) == [state |-> "committed", pending |-> 0]

Aborted(t) == [state |-> "aborted", pending |-> 0]

ErrorTupleWithCounts(err) ==
    [migrated |-> count, source |-> sourceCount, target |-> targetCount, err |-> err]

ErrorTuple(err) == [migrated |-> 0, source |-> 0, target |-> 0, err |-> err]

Unwind(tuple, t) ==
    IF deferred /\ t.state = "nil"
    THEN /\ pc' = "panic"
         /\ cleanup' = "nil_deref"
         /\ tx' = t
         /\ ret' = ret
    ELSE /\ pc' = "returned"
         /\ ret' = tuple
         /\ tx' = IF deferred THEN Deferred(t) ELSE t
         /\ cleanup' = IF ~deferred THEN "none"
                       ELSE IF t.state = "open" THEN "rollback" ELSE "txdone"

OptionsOfIgnoringDryRun(t) ==
    [Table |-> t.SourceTable, TargetTable |-> t.TargetTable, Where |-> t.Where,
     BatchSize |-> BatchOrDefault(t.BatchSize), DryRun |-> FALSE,
     Columns |-> t.Columns, AutoCreate |-> t.AutoCreate,
     IncrementalKey |-> t.IncrementalKey, Since |-> t.Since, Until |-> t.Until,
     SelectSQL |-> t.SelectSQL]

OptionsOf(t) ==
    [Table |-> t.SourceTable, TargetTable |-> t.TargetTable, Where |-> t.Where,
     BatchSize |-> BatchOrDefault(t.BatchSize), DryRun |-> cliDryRun,
     Columns |-> t.Columns, AutoCreate |-> t.AutoCreate,
     IncrementalKey |-> t.IncrementalKey, Since |-> t.Since, Until |-> t.Until,
     SelectSQL |-> t.SelectSQL]

SkipTable(t) ==
    /\ pc = "loop" /\ ti <= numTables
    /\ TrimSpace(t.SourceTable) = <<>>
    /\ ti' = ti + 1
    /\ UNCHANGED <<inputs, target, pc, opts, targetTable, sourceCount, targetCount,
                   planVars, loopVars, tx, deferred, cleanup, classification, ret,
                   aggVars, invoked, commits, dstLog,
                   srcCountErr, tgtCountErr, tgtBefore>>

StartTable(t) ==
    /\ pc = "loop" /\ ti <= numTables
    /\ TrimSpace(t.SourceTable) # <<>>
    /\ opts' = OptionsOf(t)
    /\ targetTable' = firstNonEmpty(t.TargetTable, t.SourceTable)
    /\ invoked' = Append(invoked, ti)
    /\ pc' = "count_src"
    /\ UNCHANGED <<inputs, target, ti, sourceCount, targetCount, planVars, loopVars,
                   tx, deferred, cleanup, classification, ret, aggVars, commits,
                   dstLog, srcCountErr, tgtCountErr, tgtBefore>>

CountSource(fail) ==
    /\ pc = "count_src"
    /\ countQuery' = CountQueryOf(opts)
    /\ srcCountErr' = (fail \/ ~QueryValid(countQuery'))
    /\ sourceCount' = CountOrUnknown(srcCountErr', Cardinality(MatchingRows(countQuery', srcN)))
    /\ pc' = "query"
    /\ UNCHANGED <<inputs, target, ti, opts, targetTable, targetCount, query, nrows, cols,
                   insertColumns, insertSQL, loopVars, tx, deferred, cleanup,
                   classification, ret, aggVars, invoked, commits, dstLog,
                   tgtCountErr, tgtBefore>>

QuerySource(outcome) ==
    /\ pc = "query"
    /\ query' = ExtractQueryOf(opts, SrcDriver)
    /\ IF outcome # "ok" \/ ~QueryValid(query')
       THEN /\ Unwind(ErrorTuple(IF outcome = "ok" THEN "query" ELSE outcome), tx)
            /\ UNCHANGED <<nrows, cols>>
       ELSE /\ nrows' = Cardinality(MatchingRows(query', srcN))
            /\ cols' = ResultColumns(query')
            /\ pc' = IF opts.AutoCreate THEN "ensure" ELSE "plan"
            /\ UNCHANGED <<tx, cleanup, ret>>
    /\ UNCHANGED <<inputs, target, ti, opts, targetTable, sourceCount, targetCount,
                   countQuery, insertColumns, insertSQL, loopVars, deferred,
                   classification, aggVars, invoked, commits, dstLog,
                   srcCountErr, tgtCountErr, tgtBefore>>

ProbeKey(table, driver) ==
    CASE driver \in {"postgres", "postgresql", "mysql", "sqlite3", "sqlserver"} -> table
      [] driver = "oracle" -> ToUpper(table)
      [] OTHER -> Unquote(quoteIdent(table, driver))

ProbeReturnsRow(store, table, driver) ==
    IF driver \in {"postgres", "postgresql", "mysql", "sqlite3", "sqlserver", "oracle"}
    THEN TableRows(store, ProbeKey(table, driver)) # Absent
    ELSE TableRows(store, ProbeKey(table, driver)) > 0

checkTableExistsPropagating(store, table, driver, probeFails) ==
    [exists |-> ~probeFails /\ ProbeReturnsRow(store, table, normalizeDriver(driver)),
     err |-> probeFails]

checkTableExists(store, table, driver, probeFails) ==
    [exists |-> ~probeFails /\ ProbeReturnsRow(store, table, normalizeDriver(driver)),
     err |-> FALSE]

CreateNeverSkipped(o) == FALSE

CreateSkipped(o) == o.DryRun

CreatedTable == Unquote(quoteIdent(targetTable, DstDriver))

EnsureTargetTable(probeFails, ddlFails) ==
    /\ pc = "ensure"
    /\ IF targetTable = <<>> \/ checkTableExists(target, targetTable, DstDriver, probeFails).err
       THEN /\ Unwind(ErrorTuple("autocreate"), tx)
            /\ dstLog' = [dstLog EXCEPT !.probe = IF targetTable = <<>> THEN "none" ELSE "error"]
            /\ UNCHANGED target
       ELSE IF checkTableExists(target, targetTable, DstDriver, probeFails).exists
       THEN /\ pc' = "plan"
            /\ dstLog' = [dstLog EXCEPT !.probe = "exists"]
            /\ UNCHANGED <<target, tx, cleanup, ret>>
       ELSE IF buildCreateTableDDL(targetTable, ColumnTypes(cols), DstDriver, opts).err
       THEN /\ Unwind(ErrorTuple("autocreate"), tx)
            /\ dstLog' = [dstLog EXCEPT !.probe = IF probeFails THEN "failed" ELSE "absent"]
            /\ UNCHANGED target
       ELSE IF CreateSkipped(opts)
       THEN /\ pc' = "plan"
            /\ dstLog' = [dstLog EXCEPT !.probe = IF probeFails THEN "failed" ELSE "absent",
                                        !.built = 1]
            /\ UNCHANGED <<target, tx, cleanup, ret>>
       ELSE IF ddlFails \/ TableRows(target, CreatedTable) # Absent
                        \/ CreatedTable \notin TargetNames
       THEN /\ Unwind(ErrorTuple("autocreate"), tx)
            /\ dstLog' = [dstLog EXCEPT !.probe = IF probeFails THEN "failed" ELSE "absent",
                                        !.built = 1, !.issued = 1]
            /\ UNCHANGED target
       ELSE /\ target' = [target EXCEPT ![CreatedTable] = 0]
            /\ dstLog' = [dstLog EXCEPT !.probe = IF probeFails THEN "failed" ELSE "absent",
                                        !.built = 1, !.issued = 1, !.ddl = @ + 1]
            /\ pc' = "plan"
            /\ UNCHANGED <<tx, cleanup, ret>>
    /\ UNCHANGED <<inputs, ti, opts, targetTable, sourceCount, targetCount, planVars,
                   loopVars, deferred, classification, aggVars, invoked, commits,
                   srcCountErr, tgtCountErr, tgtBefore>>

PlanInsert(beginFails) ==
    /\ pc = "plan"
    /\ insertColumns' = buildInsertColumns(cols, opts)
    /\ insertSQL' = buildInsertSQL(targetTable, insertColumns', DstDriver)
    /\ IF insertSQL'.err
       THEN /\ Unwind(ErrorTuple("insertsql"), tx)
            /\ UNCHANGED <<deferred, dstLog, tgtBefore>>
       ELSE IF beginFails
            THEN /\ Unwind(ErrorTuple("begin"), tx)
                 /\ UNCHANGED <<deferred, dstLog, tgtBefore>>
            ELSE /\ tx' = OpenTx
                 /\ deferred' = TRUE
                 /\ dstLog' = [dstLog EXCEPT !.begin = @ + 1]
                 /\ tgtBefore' = TableRows(target, Unquote(insertSQL'.table))
                 /\ pc' = "next"
                 /\ UNCHANGED <<cleanup, ret>>
    /\ UNCHANGED <<inputs, target, ti, opts, targetTable, sourceCount, targetCount,
                   countQuery, query, nrows, cols, loopVars, classification, aggVars,
                   invoked, commits, srcCountErr, tgtCountErr>>

FetchRow ==
    /\ pc = "next" /\ fetched < nrows
    /\ fetched' = fetched + 1
    /\ pc' = "insert"
    /\ UNCHANGED <<inputs, target, ti, opts, targetTable, sourceCount, targetCount,
                   planVars, args, count, batchCount, samples, tx, deferred, cleanup,
                   classification, ret, aggVars, invoked, commits, dstLog,
                   srcCountErr, tgtCountErr, tgtBefore>>

ScanError ==
    /\ pc = "next" /\ fetched < nrows
    /\ Unwind(ErrorTuple("scan"), tx)
    /\ UNCHANGED <<inputs, target, ti, opts, targetTable, sourceCount, targetCount,
                   planVars, loopVars, deferred, classification, aggVars, invoked,
                   commits, dstLog, srcCountErr, tgtCountErr, tgtBefore>>

IterationError ==
    /\ pc = "next"
    /\ Unwind(ErrorTuple("iterate"), tx)
    /\ UNCHANGED <<inputs, target, ti, opts, targetTable, sourceCount, targetCount,
                   planVars, loopVars, deferred, classification, aggVars, invoked,
                   commits, dstLog, srcCountErr, tgtCountErr, tgtBefore>>

EndOfRows ==
    /\ pc = "next" /\ fetched = nrows
    /\ pc' = "final"
    /\ UNCHANGED <<inputs, target, ti, opts, targetTable, sourceCount, targetCount,
                   planVars, loopVars, tx, deferred, cleanup, classification, ret,
                   aggVars, invoked, commits, dstLog,
                   srcCountErr, tgtCountErr, tgtBefore>>

InsertRow(insertFails) ==
    /\ pc = "insert"
    /\ args' = reorderArgs(cols, insertColumns, RowValues(cols, fetched), opts)
    /\ IF opts.DryRun
       THEN /\ samples' = IF count < SampleRows THEN samples + 1 ELSE samples
            /\ count' = count + 1
            /\ batchCount' = batchCount + 1
            /\ pc' = "next"
            /\ UNCHANGED <<tx, cleanup, ret, dstLog>>
       ELSE IF insertFails \/ TableRows(target, WriteTable) = Absent
            THEN /\ Unwind(ErrorTuple("insert"), tx)
                 /\ UNCHANGED <<count, batchCount, samples, dstLog>>
            ELSE /\ tx' = [tx EXCEPT !.pending = @ + 1]
                 /\ dstLog' = [dstLog EXCEPT !.insert = @ + 1]
                 /\ count' = count + 1
                 /\ batchCount' = batchCount + 1
                 /\ pc' = IF BatchFull(opts, batchCount') THEN "commit" ELSE "next"
                 /\ UNCHANGED <<samples, cleanup, ret>>
    /\ UNCHANGED <<inputs, target, ti, opts, targetTable, sourceCount, targetCount,
                   planVars, fetched, deferred, classification, aggVars, invoked,
                   commits, srcCountErr, tgtCountErr, tgtBefore>>

CommitTxReplaces(t) ==
    /\ target' = IF t.pending > 0
                 THEN [target EXCEPT ![WriteTable] = t.pending]
                 ELSE target
    /\ commits' = Append(commits, t.pending)
    /\ dstLog' = [dstLog EXCEPT !.commit = @ + 1]

CommitTxNonEmpty(t) ==
    /\ target' = IF t.pending > 0
                 THEN [target EXCEPT ![WriteTable] = @ + t.pending]
                 ELSE target
    /\ commits' = IF t.pending > 0 THEN Append(commits, t.pending) ELSE commits
    /\ dstLog' = IF t.pending > 0 THEN [dstLog EXCEPT !.commit = @ + 1] ELSE dstLog

CommitTx(t) ==
    /\ target' = IF t.pending > 0
                 THEN [target EXCEPT ![WriteTable] = @ + t.pending]
                 ELSE target
    /\ commits' = Append(commits, t.pending)
    /\ dstLog' = [dstLog EXCEPT !.commit = @ + 1]

BatchCommit(commitFails) ==
    /\ pc = "commit"
    /\ IF commitFails
       THEN /\ Unwind(ErrorTuple("commit"), Aborted(tx))
            /\ UNCHANGED <<target, commits, dstLog>>
       ELSE /\ CommitTx(tx)
            /\ tx' = Committed(tx)
            /\ pc' = "rebegin"
            /\ UNCHANGED <<cleanup, ret>>
    /\ UNCHANGED <<inputs, ti, opts, targetTable, sourceCount, targetCount, planVars,
                   loopVars, deferred, classification, aggVars, invoked,
                   srcCountErr, tgtCountErr, tgtBefore>>

BeginNextBatch(beginFails) ==
    /\ pc = "rebegin"
    /\ IF beginFails
       THEN /\ Unwind(ErrorTuple("rebegin"), NilTx)
            /\ UNCHANGED <<batchCount, dstLog>>
       ELSE /\ tx' = OpenTx
            /\ dstLog' = [dstLog EXCEPT !.begin = @ + 1]
            /\ batchCount' = 0
            /\ pc' = "next"
            /\ UNCHANGED <<cleanup, ret>>
    /\ UNCHANGED <<inputs, target, ti, opts, targetTable, sourceCount, targetCount,
                   planVars, fetched, args, count, samples, deferred, classification,
                   aggVars, invoked, commits, srcCountErr, tgtCountErr,
                   tgtBefore>>

FinalCommitSkipped(commitFails) ==
    /\ pc = "final"
    /\ pc' = "count_tgt"
    /\ UNCHANGED <<target, commits, dstLog, tx, cleanup, ret>>
    /\ UNCHANGED <<inputs, ti, opts, targetTable, sourceCount, targetCount, planVars,
                   loopVars, deferred, classification, aggVars, invoked,
                   srcCountErr, tgtCountErr, tgtBefore>>

FinalCommit(commitFails) ==
    /\ pc = "final"
    /\ IF opts.DryRun
       THEN /\ pc' = "count_tgt"
            /\ UNCHANGED <<target, commits, dstLog, tx, cleanup, ret>>
       ELSE IF commitFails
            THEN /\ Unwind(ErrorTuple("final_commit"), Aborted(tx))
                 /\ UNCHANGED <<target, commits, dstLog>>
            ELSE /\ CommitTx(tx)
                 /\ tx' = Committed(tx)
                 /\ pc' = "count_tgt"
                 /\ UNCHANGED <<cleanup, ret>>
    /\ UNCHANGED <<inputs, ti, opts, targetTable, sourceCount, targetCount, planVars,
                   loopVars, deferred, classification, aggVars, invoked,
                   srcCountErr, tgtCountErr, tgtBefore>>

CountTarget(fail) ==
    /\ pc = "count_tgt"
    /\ tgtCountErr' =
          (fail \/ TableRows(target, Unquote(quoteIdent(targetTable, DstDriver))) = Absent)
    /\ targetCount' =
          CountOrUnknown(tgtCountErr',
                         TableRows(target, Unquote(quoteIdent(targetTable, DstDriver))))
    /\ classification' = Classify(sourceCount, targetCount')
    /\ Unwind([migrated |-> count, source |-> sourceCount, target |-> targetCount',
               err |-> "nil"], tx)
    /\ UNCHANGED <<inputs, target, ti, opts, targetTable, sourceCount, planVars,
                   loopVars, deferred, aggVars, invoked, commits, dstLog,
                   srcCountErr, tgtBefore>>

(***************************************************************************)
(* runWithConfig: the result of one table, and the final report.           *)
(***************************************************************************)
OnCopyErrorContinue == "loop"

OnCopyError == "fatal"

CountAsReturned(n) == n

CountableOrZero(n) == IF n >= 0 THEN n ELSE 0

RECURSIVE Differing(_)
Differing(rs) ==
    IF rs = <<>> THEN <<>>
    ELSE (IF Head(rs).HasDiff THEN <<Head(rs)>> ELSE <<>>) \o Differing(Tail(rs))

CopyFailed ==
    /\ pc = "returned" /\ ret.err # "nil"
    /\ pc' = OnCopyError
    /\ UNCHANGED <<inputs, target, ti, opts, targetTable, sourceCount, targetCount,
                   planVars, loopVars, tx, deferred, cleanup, classification, ret,
                   aggVars, invoked, commits, dstLog,
                   srcCountErr, tgtCountErr, tgtBefore>>

CollectResult ==
    /\ pc = "returned" /\ ret.err = "nil"
    /\ results' = Append(results,
                         VerificationResult(opts.Table, ret.source, ret.target, ret.migrated))
    /\ diffTableCount' =
          IF VerificationResult(opts.Table, ret.source, ret.target, ret.migrated).HasDiff
          THEN diffTableCount + 1 ELSE diffTableCount
    /\ totalSourceCount' = totalSourceCount + CountableOrZero(ret.source)
    /\ totalTargetCount' = totalTargetCount + CountableOrZero(ret.target)
    /\ totalMigratedCount' = totalMigratedCount + ret.migrated
    /\ ti' = ti + 1
    /\ pc' = "loop"
    /\ JobReset
    /\ UNCHANGED <<inputs, target, report, invoked>>

Report ==
    /\ pc = "loop" /\ ti > numTables
    /\ report' = [totalDiff |-> totalTargetCount - totalSourceCount,
                  class |-> AggregateClass(totalTargetCount - totalSourceCount),
                  listed |-> IF diffTableCount > 0 THEN Differing(results) ELSE <<>>]
    /\ pc' = "done"
    /\ UNCHANGED <<inputs, target, ti, opts, targetTable, sourceCount, targetCount,
                   planVars, loopVars, tx, deferred, cleanup, classification, ret,
                   results, totalSourceCount, totalTargetCount, totalMigratedCount,
                   diffTableCount, invoked, commits, dstLog,
                   srcCountErr, tgtCountErr, tgtBefore>>

Next ==
    \/ \E t \in Tables(cfgTables) : SkipTable(t)
    \/ \E t \in Tables(cfgTables) : StartTable(t)
    \/ \E fail \in BOOLEAN : CountSource(fail)
    \/ \E outcome \in {"ok", "query", "columns", "coltypes"} : QuerySource(outcome)
    \/ \E probeFails \in BOOLEAN, ddlFails \in BOOLEAN :
          EnsureTargetTable(probeFails, ddlFails)
    \/ \E beginFails \in BOOLEAN : PlanInsert(beginFails)
    \/ FetchRow
    \/ ScanError
    \/ IterationError
    \/ EndOfRows
    \/ \E insertFails \in BOOLEAN : InsertRow(insertFails)
    \/ \E commitFails \in BOOLEAN : BatchCommit(commitFails)
    \/ \E beginFails \in BOOLEAN : BeginNextBatch(beginFails)
    \/ \E commitFails \in BOOLEAN : FinalCommit(commitFails)
    \/ \E fail \in BOOLEAN : CountTarget(fail)
    \/ CopyFailed
    \/ CollectResult
    \/ Report

Spec == Init /\ [][Next]_vars

SpecPlan == InitPlan /\ [][Next]_vars

SpecBatch == InitBatch /\ [][Next]_vars

SpecCreate == InitCreate /\ [][Next]_vars

SpecSummary == InitSummary /\ [][Next]_vars

(***************************************************************************)
(* buildCreateTableDDL and mapColumnType on their own: a table of n        *)
(* columns c1..cn, the first of any source type, with or without a mapping *)
(* that gives the first column an explicit target type.                    *)
(***************************************************************************)
runVars == <<cliDryRun, numTables, cfgTables, srcN, target,
             ti, pc,
             opts, targetTable, sourceCount, targetCount, countQuery, query,
             nrows, fetched, cols, insertColumns, insertSQL, args,
             tx, deferred, cleanup, count, batchCount, samples, classification, ret,
             results, totalSourceCount, totalTargetCount, totalMigratedCount,
             diffTableCount, report,
             target0, invoked, commits, dstLog,
             srcCountErr, tgtCountErr, tgtBefore, dstDriver>>

RunUnused ==
    /\ cliDryRun = FALSE /\ numTables = 1 /\ cfgTables = "tx" /\ srcN = 0
    /\ target = [t \in TargetNames |-> Absent] /\ target0 = target
    /\ RunIdle /\ JobIdle
    /\ dstDriver = "postgres"

ColName(i) == <<"c">> \o Itoa(i)

SourceTypes ==
    {Ty.TINYINT, Ty.SMALLINT, Ty.INT, Ty.INTEGER, Ty.BIGINT, <<"b", "i", "g", "i", "n", "t">>,
     Ty.VARCHAR, Ty.CHAR, Ty.TEXT}

ExplicitTypes ==
    {Empty, Blank, Ty.VARCHAR_255, <<" ">> \o Ty.CHAR \o <<" ">>,
     <<"v", "a", "r", "c", "h", "a", "r", "(", "9", ")">>, Ty.INT, Ty.NVARCHAR_MAX}

TableColumns(n, first, rest) ==
    [i \in 1..n |-> [Name |-> ColName(i),
                     DatabaseTypeName |-> IF i = 1 THEN first ELSE rest,
                     Nullable |-> "unknown"]]

TypeMapping(t) ==
    <<[Source |-> ColName(1), Target |-> Empty, TargetType |-> t, Nullable |-> "nil",
       DefaultValue |-> Empty]>>

Pending == [err |-> FALSE, table |-> <<>>, defs |-> <<>>]

InitDDL ==
    /\ RunUnused
    /\ \E d \in Drivers, n \in (1..MaxCols) \cup {LargeTableColumns, LargeTableColumns + 1},
          first \in SourceTypes, rest \in {Ty.VARCHAR, Ty.BIGINT} :
          \E columns \in {NoColumns} \cup {TypeMapping(t) : t \in ExplicitTypes} :
             call = [fn |-> "ddl", table |-> TblS, driver |-> d,
                     colTypes |-> TableColumns(n, first, rest),
                     columns |-> columns, out |-> Pending, mapped |-> <<>>]

BuildDDL ==
    /\ call.fn = "ddl" /\ call.out = Pending
    /\ call' = [call EXCEPT !.out = buildCreateTableDDL(call.table, call.colTypes, call.driver,
                                                       [NoOpts EXCEPT !.Columns = call.columns])]
    /\ UNCHANGED runVars

MapTypes ==
    /\ call.fn = "ddl" /\ call.mapped = <<>>
    /\ call' = [call EXCEPT !.mapped = [i \in 1..Len(call.colTypes) |->
                                          mapColumnType(call.colTypes[i],
                                                        normalizeDriver(call.driver))]]
    /\ UNCHANGED runVars

NextDDL ==
    \/ BuildDDL
    \/ MapTypes

SpecDDL == InitDDL /\ [][NextDDL]_vars

(***************************************************************************)
(* buildInsertColumns and reorderArgs on their own: result columns with    *)
(* distinct names among a, b, c, up to MaxMappings column mappings over    *)
(* the same names, and a row whose value in column n is <<"v", n>>.        *)
(***************************************************************************)
ColB == <<"b">>

ColC == <<"c">>

ResultSets ==
    {<<x>> : x \in {ColA, ColB, ColC}}
    \cup {p \in {ColA, ColB, ColC} \X {ColA, ColB, ColC} : p[1] # p[2]}

MappingPool ==
    [Source : {Empty, ColA, ColB, ColC}, Target : {Empty, ColA, ColB, ColC, <<" ", "b", " ">>},
     TargetType : {Empty}, Nullable : {"nil"}, DefaultValue : {Empty}]

RECURSIVE MappingLists(_)
MappingLists(n) ==
    IF n = 0 THEN {<<>>}
    ELSE MappingLists(n - 1)
         \cup {Append(l, m) : l \in {k \in MappingLists(n - 1) : Len(k) = n - 1},
                              m \in MappingPool}

ValuesOf(sourceCols) == [j \in 1..Len(sourceCols) |-> <<"v">> \o sourceCols[j]]

Unset == <<"unset">>

InitArgs ==
    /\ RunUnused
    /\ \E sourceCols \in ResultSets, columns \in MappingLists(MaxMappings) :
          call = [fn |-> "args", sourceCols |-> sourceCols, columns |-> columns,
                  values |-> ValuesOf(sourceCols), insertCols |-> Unset, args |-> Unset]

PlanColumns ==
    /\ call.fn = "args" /\ call.insertCols = Unset
    /\ call' = [call EXCEPT !.insertCols =
                    buildInsertColumns(call.sourceCols, [NoOpts EXCEPT !.Columns = call.columns])]
    /\ UNCHANGED runVars

BindArgs ==
    /\ call.fn = "args" /\ call.insertCols # Unset /\ call.args = Unset
    /\ call' = [call EXCEPT !.args =
                    reorderArgs(call.sourceCols, call.insertCols, call.values,
                                [NoOpts EXCEPT !.Columns = call.columns])]
    /\ UNCHANGED runVars

NextArgs ==
    \/ PlanColumns
    \/ BindArgs

SpecArgs == InitArgs /\ [][NextArgs]_vars

(***************************************************************************)
(* The insert of one row as copyTable prepares it: the insert columns, the *)
(* INSERT statement for the target's driver, then the arguments of the     *)
(* row.                                                                    *)
(***************************************************************************)
InsertDrivers == {"postgres", "oracle", "mysql", "mssql"}

InitInsert ==
    /\ RunUnused
    /\ \E sourceCols \in ResultSets, columns \in MappingLists(MaxMappings),
          driver \in InsertDrivers :
          call = [fn |-> "args", sourceCols |-> sourceCols, columns |-> columns,
                  values |-> ValuesOf(sourceCols), insertCols |-> Unset, args |-> Unset,
                  driver |-> driver, insertSQL |-> NoStatement]

BuildInsert ==
    /\ call.fn = "args" /\ call.insertCols # Unset /\ call.insertSQL = NoStatement
    /\ call' = [call EXCEPT !.insertSQL = buildInsertSQL(TblS, call.insertCols, call.driver)]
    /\ UNCHANGED runVars

BindRow ==
    /\ call.fn = "args" /\ ~call.insertSQL.err /\ call.args = Unset
    /\ call' = [call EXCEPT !.args =
                    reorderArgs(call.sourceCols, call.insertCols, call.values,
                                [NoOpts EXCEPT !.Columns = call.columns])]
    /\ UNCHANGED runVars

NextInsert ==
    \/ PlanColumns
    \/ BuildInsert
    \/ BindRow

SpecInsert == InitInsert /\ [][NextInsert]_vars

(***************************************************************************)
(* quoteIdent on its own: every identifier of up to MaxIdent characters    *)
(* among the quote characters of the dialects, a letter and a blank, for   *)
(* every driver tag, quoted once and then quoted again.                    *)
(***************************************************************************)
IdentChars == {"\"", "[", "]", Backtick, "a", " "}

RECURSIVE Identifiers(_)
Identifiers(n) ==
    IF n = 0 THEN {<<>>}
    ELSE Identifiers(n - 1)
         \cup {Append(x, c) : x \in {y \in Identifiers(n - 1) : Len(y) = n - 1},
                              c \in IdentChars}

InitQuote ==
    /\ RunUnused
    /\ \E name \in Identifiers(MaxIdent), driver \in Drivers :
          call = [fn |-> "quote", name |-> name, driver |-> driver,
                  once |-> Unset, twice |-> Unset]

Quote ==
    /\ call.fn = "quote" /\ call.once = Unset
    /\ call' = [call EXCEPT !.once = quoteIdent(call.name, call.driver)]
    /\ UNCHANGED runVars

Requote ==
    /\ call.fn = "quote" /\ call.once # Unset /\ call.twice = Unset
    /\ call' = [call EXCEPT !.twice = quoteIdent(call.once, call.driver)]
    /\ UNCHANGED runVars

NextQuote ==
    \/ Quote
    \/ Requote

SpecQuote == InitQuote /\ [][NextQuote]_vars

(***************************************************************************)
(* The table list of a configuration with table_list.from_source: the     *)
(* list resolveConfig returns, the discovery of runWithConfig and its     *)
(* check of an empty list.  The source holds the tables named in names    *)
(* (s, t or both, in the catalog's order); Defaults is the pointer         *)
(* table_list.defaults, a sequence of no or one record.  A pattern is one  *)
(* of "" (skipped), "(" (does not compile), "." (any character) and the    *)
(* anchored prefixes "^s" and "^t".                                        *)
(***************************************************************************)
TblT == <<"t">>

PatInvalid == <<"(">>

PatAny == <<".">>

PatS == <<"^", "s">>

PatT == <<"^", "t">>

Compiles(p) == p # PatInvalid

MatchString(p, name) ==
    CASE p = PatAny -> Len(name) >= 1
      [] Len(p) >= 1 /\ p[1] = "^" -> HasPrefixStr(name, Tail(p))
      [] OTHER -> FALSE

CompilePatterns(patterns) == SelectSeq(patterns, LAMBDA p : p # <<>> /\ Compiles(p))

compileTableFilters(include, exclude) ==
    [includeRe |-> CompilePatterns(include), excludeRe |-> CompilePatterns(exclude)]

matchTableFilters(name, includeRe, excludeRe) ==
    IF \E i \in 1..Len(excludeRe) : MatchString(excludeRe[i], name) THEN FALSE
    ELSE IF Len(includeRe) = 0 THEN TRUE
    ELSE \E i \in 1..Len(includeRe) : MatchString(includeRe[i], name)

ListJobs ==
    [SourceTable : {Empty, TblS, <<" ", "s">>}, TargetTable : {Empty, TblX},
     Where : {Empty}, BatchSize : {0}, AutoCreate : {FALSE},
     IncrementalKey : {Empty}, Since : {Empty}, Until : {Empty},
     Columns : {NoColumns}, SelectSQL : {Empty}]

DefaultJobs ==
    [SourceTable : {Empty, TblT}, TargetTable : {Empty}, Where : {PredW},
     BatchSize : {0, MaxBatch}, AutoCreate : {TRUE},
     IncrementalKey : {Empty}, Since : {Empty}, Until : {Empty},
     Columns : {NoColumns}, SelectSQL : {StmtQ}]

RECURSIVE JobLists(_)
JobLists(n) ==
    IF n = 0 THEN {<<>>}
    ELSE JobLists(n - 1)
         \cup {Append(l, t) : l \in {k \in JobLists(n - 1) : Len(k) = n - 1}, t \in ListJobs}

resolveConfig(tl) == tl.Defaults

DiscoveryRuns(tl, tables) ==
    /\ tl.FromSource
    /\ \/ Len(tables) = 0
       \/ Len(tables) = 1 /\ TrimSpace(tables[1].SourceTable) = <<>>

listTableSet(tl) ==
    {tl.List[i].SourceTable : i \in {j \in 1..Len(tl.List) : TrimSpace(tl.List[j].SourceTable) # <<>>}}

ListEntry(t) == [t EXCEPT !.BatchSize = BatchOrDefault(t.BatchSize)]

ListEntries(tl) ==
    LET kept == SelectSeq(tl.List, LAMBDA t : TrimSpace(t.SourceTable) # <<>>)
    IN  [i \in 1..Len(kept) |-> ListEntry(kept[i])]

DiscoveredEntry(name, defaults) ==
    IF Len(defaults) = 0
    THEN [SourceTable |-> name, TargetTable |-> Empty, Where |-> Empty,
          BatchSize |-> DefaultBatchSize, AutoCreate |-> FALSE,
          IncrementalKey |-> Empty, Since |-> Empty, Until |-> Empty,
          Columns |-> NoColumns, SelectSQL |-> Empty]
    ELSE [SourceTable |-> name, TargetTable |-> defaults[1].TargetTable,
          Where |-> defaults[1].Where, BatchSize |-> defaults[1].BatchSize,
          AutoCreate |-> defaults[1].AutoCreate,
          IncrementalKey |-> defaults[1].IncrementalKey,
          Since |-> defaults[1].Since, Until |-> defaults[1].Until,
          Columns |-> defaults[1].Columns, SelectSQL |-> Empty]

DiscoveredEntries(tl, names) ==
    LET re == compileTableFilters(tl.Include, tl.Exclude)
        added == SelectSeq(names, LAMBDA n : /\ n \notin listTableSet(tl)
                                              /\ matchTableFilters(n, re.includeRe, re.excludeRe))
    IN  [i \in 1..Len(added) |-> DiscoveredEntry(added[i], tl.Defaults)]

InitList ==
    /\ RunUnused
    /\ \E list \in JobLists(MaxList),
          defaults \in {<<>>} \cup {<<d>> : d \in DefaultJobs},
          include \in {<<>>, <<PatS>>, <<PatInvalid>>, <<Empty, PatT>>},
          exclude \in {<<>>, <<PatS>>, <<PatAny>>},
          names \in {<<>>, <<TblS>>, <<TblT>>, <<TblS, TblT>>} :
          call = [fn |-> "list", step |-> "config",
                  TableList |-> [FromSource |-> TRUE, List |-> list, Defaults |-> defaults,
                                 Include |-> include, Exclude |-> exclude],
                  names |-> names, tables |-> <<>>]

ResolveConfig ==
    /\ call.fn = "list" /\ call.step = "config"
    /\ call' = [call EXCEPT !.tables = resolveConfig(call.TableList), !.step = "resolved"]
    /\ UNCHANGED runVars

DiscoverTables ==
    /\ call.fn = "list" /\ call.step = "resolved"
    /\ DiscoveryRuns(call.TableList, call.tables)
    /\ call' = [call EXCEPT !.tables = ListEntries(call.TableList)
                                         \o DiscoveredEntries(call.TableList, call.names),
                            !.step = "listed"]
    /\ UNCHANGED runVars

KeepResolved ==
    /\ call.fn = "list" /\ call.step = "resolved"
    /\ ~DiscoveryRuns(call.TableList, call.tables)
    /\ call' = [call EXCEPT !.step = "listed"]
    /\ UNCHANGED runVars

EmptyListFatal ==
    /\ call.fn = "list" /\ call.step = "listed"
    /\ Len(call.tables) = 0
    /\ call' = [call EXCEPT !.step = "fatal"]
    /\ UNCHANGED runVars

NextList ==
    \/ ResolveConfig
    \/ DiscoverTables
    \/ KeepResolved
    \/ EmptyListFatal

SpecList == InitList /\ [][NextList]_vars

(***************************************************************************)
(* Properties.                                                             *)
(***************************************************************************)
RECURSIVE SumSeq(_)
SumSeq(q) == IF q = <<>> THEN 0 ELSE Head(q) + SumSeq(Tail(q))

Succeeded == pc = "returned" /\ ret.err = "nil"

FullThenRest(n, b) ==
    [i \in 1..((n \div b) + 1) |-> IF i <= n \div b THEN b ELSE n % b]

(***************************************************************************)
(* C1: in a copy that writes (no dry run) and whose inserts and commits    *)
(* all succeed, the rows are committed in consecutive batches: no commit   *)
(* holds more than BatchSize rows; while the loop runs, one full batch has *)
(* been committed, and one more transaction opened, per BatchSize rows     *)
(* processed; on return the commits are the full batches followed by the   *)
(* remaining rows and the migrated count is the number of extracted rows.  *)
(* 2500 rows in batches of 1000 are committed as 1000, 1000, 500.          *)
(***************************************************************************)
C1_BatchedCommits ==
    /\ \A i \in 1..Len(commits) : commits[i] <= opts.BatchSize
    /\ (pc \in {"next", "insert"} /\ ~opts.DryRun) =>
          /\ commits = [i \in 1..(count \div opts.BatchSize) |-> opts.BatchSize]
          /\ dstLog.begin = Len(commits) + 1
          /\ tx.state = "open"
          /\ tx.pending = count % opts.BatchSize
    /\ (Succeeded /\ ~opts.DryRun) =>
          /\ commits = FullThenRest(nrows, opts.BatchSize)
          /\ ret.migrated = nrows
          /\ (nrows = 2500 /\ opts.BatchSize = 1000) =>
                (commits = <<1000, 1000, 500>> /\ ret.migrated = 2500)

C1_Witness ==
    /\ Succeeded /\ ~opts.DryRun
    /\ nrows = 2500 /\ opts.BatchSize = 1000
    /\ commits = <<1000, 1000, 500>>
    /\ ret.migrated = 2500

(***************************************************************************)
(* C2: when an insert fails, copyTable returns with the transaction in     *)
(* flight rolled back, so that the target table holds the rows it held     *)
(* before the copy plus the rows of the batches committed before the       *)
(* failure (all of them full) and none of the rows inserted in the failed  *)
(* batch.                                                                  *)
(***************************************************************************)
C2_FailureRollback ==
    (pc = "returned" /\ ret.err = "insert") =>
        /\ tx = [state |-> "rolledback", pending |-> 0]
        /\ cleanup = "rollback"
        /\ \A i \in 1..Len(commits) : commits[i] = opts.BatchSize
        /\ SumSeq(commits) = count - batchCount
        /\ TableRows(target, WriteTable) = tgtBefore + SumSeq(commits)

C2_Witness ==
    /\ pc = "returned" /\ ret.err = "insert"
    /\ Len(commits) >= 1 /\ batchCount >= 1
    /\ TableRows(target, WriteTable) = tgtBefore + count - batchCount

(***************************************************************************)
(* C3: in a dry run nothing is written to the target: no table is created, *)
(* no insert is executed, no transaction is committed and the committed    *)
(* contents of the target stay what they were before the run; the source   *)
(* count, the insert statement and the target count are still computed.    *)
(***************************************************************************)
C3_DryRunNeverMutates ==
    cliDryRun =>
        /\ target = target0
        /\ dstLog.insert = 0 /\ dstLog.ddl = 0 /\ dstLog.commit = 0
        /\ commits = <<>>
        /\ tx.pending = 0
        /\ Succeeded =>
              /\ opts.DryRun
              /\ countQuery = CountQueryOf(opts)
              /\ insertSQL = buildInsertSQL(targetTable, insertColumns, DstDriver)
              /\ ~insertSQL.err
              /\ ret.source = sourceCount /\ ret.target = targetCount
              /\ ret.migrated = nrows
              /\ tx.state = "rolledback"

C3_Witness ==
    /\ Succeeded /\ cliDryRun
    /\ opts.AutoCreate /\ TableRows(target, targetTable) = Absent
    /\ nrows = MaxRows /\ count = nrows
    /\ target = target0

(***************************************************************************)
(* C4: once the first transaction has been opened, every exit of copyTable *)
(* is an ordinary return after which the transaction is finished (rolled   *)
(* back by the deferred cleanup, or already committed or failed in its     *)
(* commit); the cleanup is never run on a missing transaction handle.      *)
(***************************************************************************)
C4_CleanupOnEveryExit ==
    /\ pc # "panic"
    /\ cleanup # "nil_deref"
    /\ (deferred /\ pc = "returned") =>
          /\ cleanup \in {"rollback", "txdone"}
          /\ tx.state \in {"rolledback", "committed", "aborted"}

C4_Witness ==
    /\ pc = "panic" /\ cleanup = "nil_deref"
    /\ deferred /\ tx.state = "nil"
    /\ Len(commits) >= 1 /\ ~opts.DryRun

(***************************************************************************)
(* C5: when copyTable returns an error, the run ends at once: the table    *)
(* that failed is the last one copyTable was called for, the tables were   *)
(* taken in configuration order, the only step after the failed return is  *)
(* the fatal exit, which leaves the target as it is, and nothing follows   *)
(* it; committed rows are never taken back, so what earlier tables and     *)
(* earlier batches committed stays in the target.                          *)
(***************************************************************************)
C5_AbortOnError ==
    /\ [](pc = "fatal" =>
             /\ ret.err \notin {"nil", "unset"}
             /\ invoked # <<>> /\ invoked[Len(invoked)] = ti
             /\ \A i \in 1..(Len(invoked) - 1) : invoked[i] < invoked[i + 1]
             /\ Len(results) = Len(invoked) - 1
             /\ report = NoReport)
    /\ [][/\ pc = "fatal" => FALSE
          /\ (pc = "returned" /\ ret.err # "nil") =>
                (pc' = "fatal" /\ target' = target /\ invoked' = invoked
                               /\ results' = results)
          /\ \A t \in TargetNames :
                target[t] # Absent => target'[t] >= target[t]]_vars

C5_Witness ==
    /\ pc = "fatal" /\ ti < numTables
    /\ Len(results) = 1 /\ results[1].MigratedCount > 0
    /\ Len(commits) >= 1
    /\ target[TblS] > target0[TblS]

(***************************************************************************)
(* C6: a failure of the source count or of the target count never fails    *)
(* the copy: the count is recorded as -1, the copy goes on, an error that  *)
(* copyTable returns is never a counting error, and a table with a count   *)
(* of -1 is given no classification and is not reported as differing.      *)
(***************************************************************************)
C6_CountFailureNonFatal ==
    /\ srcCountErr => sourceCount = -1
    /\ tgtCountErr => targetCount = -1
    /\ pc = "returned" => ret.err \notin {"count_src", "count_tgt", "count"}
    /\ (Succeeded /\ (srcCountErr \/ tgtCountErr)) =>
          /\ classification = "none"
          /\ ret.source = sourceCount /\ ret.target = targetCount
          /\ ret.migrated = nrows
          /\ ~VerificationResult(opts.Table, ret.source, ret.target, ret.migrated).HasDiff
          /\ VerificationResult(opts.Table, ret.source, ret.target, ret.migrated).Diff = 0
    /\ (srcCountErr /\ pc \notin {"loop", "done"}) => pc # "count_src"

C6_Witness ==
    /\ Succeeded /\ ~cliDryRun
    /\ srcCountErr /\ ~tgtCountErr
    /\ sourceCount = -1 /\ targetCount > 0
    /\ ret.migrated = MaxRows
    /\ classification = "none"

(***************************************************************************)
(* C7: when both counts of a table are known (>= 0), its difference is the *)
(* target count minus the source count, and the table is classified as a   *)
(* match exactly when the difference is 0, as a surplus exactly when it is *)
(* positive and as a deficit exactly when it is negative; the HasDiff flag *)
(* of a table's result is true exactly when both counts are known and      *)
(* differ.  10000 against 10020 is a surplus of 20, 10000 against 9990 a   *)
(* deficit of -10.                                                         *)
(***************************************************************************)
C7_Reconciliation ==
    /\ (Succeeded /\ sourceCount >= 0 /\ targetCount >= 0) =>
          /\ classification \in {"match", "surplus", "deficit"}
          /\ classification = "match" <=> targetCount - sourceCount = 0
          /\ classification = "surplus" <=> targetCount - sourceCount > 0
          /\ classification = "deficit" <=> targetCount - sourceCount < 0
    /\ \A i \in 1..Len(results) :
          /\ results[i].HasDiff <=>
                /\ results[i].SourceCount >= 0
                /\ results[i].TargetCount >= 0
                /\ results[i].TargetCount # results[i].SourceCount
          /\ (results[i].SourceCount >= 0 /\ results[i].TargetCount >= 0) =>
                results[i].Diff = results[i].TargetCount - results[i].SourceCount
    /\ Classify(10000, 10020) = "surplus"
    /\ VerificationResult(TblS, 10000, 10020, 10000).Diff = 20
    /\ VerificationResult(TblS, 10000, 10020, 10000).HasDiff
    /\ Classify(10000, 9990) = "deficit"
    /\ VerificationResult(TblS, 10000, 9990, 10000).Diff = -10
    /\ VerificationResult(TblS, 10000, 9990, 10000).HasDiff
    /\ Classify(10000, 10000) = "match"
    /\ VerificationResult(TblS, 10000, 10000, 10000).Diff = 0
    /\ ~VerificationResult(TblS, 10000, 10000, 10000).HasDiff

C7_Witness ==
    /\ Succeeded /\ ~cliDryRun
    /\ sourceCount = MaxRows /\ targetCount > sourceCount
    /\ classification = "surplus"
    /\ Len(results) >= 1
    /\ results[1].HasDiff /\ results[1].Diff = 1

(***************************************************************************)
(* C8: in a run over several tables, the source total is the sum of the    *)
(* known (>= 0) source counts, the target total the sum of the known       *)
(* target counts, the migrated total the sum of all migrated counts, and   *)
(* the number of differing tables is the number of results whose counts    *)
(* are both known and unequal; the report of a completed run lists exactly *)
(* those results.                                                          *)
(***************************************************************************)
RECURSIVE KnownSum(_, _)
KnownSum(rs, side) ==
    IF rs = <<>> THEN 0
    ELSE (IF Head(rs)[side] >= 0 THEN Head(rs)[side] ELSE 0) + KnownSum(Tail(rs), side)

RECURSIVE MigratedSum(_)
MigratedSum(rs) ==
    IF rs = <<>> THEN 0 ELSE Head(rs).MigratedCount + MigratedSum(Tail(rs))

Unequal(rs) ==
    {i \in 1..Len(rs) : /\ rs[i].SourceCount >= 0
                        /\ rs[i].TargetCount >= 0
                        /\ rs[i].SourceCount # rs[i].TargetCount}

C8_AggregateTotals ==
    /\ totalSourceCount = KnownSum(results, "SourceCount")
    /\ totalTargetCount = KnownSum(results, "TargetCount")
    /\ totalMigratedCount = MigratedSum(results)
    /\ diffTableCount = Cardinality(Unequal(results))
    /\ pc = "done" =>
          /\ Len(report.listed) = Cardinality(Unequal(results))
          /\ \A i \in Unequal(results) :
                \E j \in 1..Len(report.listed) : report.listed[j] = results[i]
          /\ \A j \in 1..Len(report.listed) :
                \E i \in Unequal(results) : report.listed[j] = results[i]
          /\ report.totalDiff = totalTargetCount - totalSourceCount

C8_Witness ==
    /\ pc = "done" /\ Len(results) >= 2
    /\ \E i \in 1..Len(results) : results[i].SourceCount = -1 /\ results[i].TargetCount > 0
    /\ \E i \in 1..Len(results) : results[i].TargetCount = -1 /\ results[i].SourceCount > 0
    /\ diffTableCount >= 1
    /\ Len(report.listed) = diffTableCount
    /\ totalMigratedCount > 0

(***************************************************************************)
(* C9: for a table copied without a custom select statement, the source    *)
(* count query restricts the rows by the same conjunction of predicates as *)
(* the extraction query (the WHERE text and the incremental predicates on  *)
(* the key), so that a source count that succeeds is the number of rows    *)
(* extracted.                                                              *)
(***************************************************************************)
Extracted ==
    \/ pc \in {"ensure", "plan", "next", "insert", "commit", "rebegin", "final",
               "count_tgt"}
    \/ Succeeded

C9_CountAppliesExtractionFilters ==
    (Extracted /\ TrimSpace(opts.SelectSQL) = <<>>) =>
        /\ countQuery.where = query.where
        /\ ~srcCountErr => sourceCount = nrows

C9_Witness ==
    /\ Succeeded /\ TrimSpace(opts.SelectSQL) = <<>>
    /\ TrimSpace(opts.IncrementalKey) # <<>> /\ TrimSpace(opts.Since) # <<>>
    /\ ~srcCountErr
    /\ sourceCount = MaxRows /\ nrows < sourceCount
    /\ ret.migrated = nrows

(***************************************************************************)
(* C10: for a table copied with a custom select statement, the statement   *)
(* is the extraction query and, inside a counting subquery, the source     *)
(* count query; Where, IncrementalKey, Since, Until and Columns have no    *)
(* effect: the two queries, the insert columns and the insert arguments    *)
(* are those of the same table entry with these fields empty.              *)
(***************************************************************************)
WithoutFilters(o) ==
    [o EXCEPT !.Where = Empty, !.IncrementalKey = Empty, !.Since = Empty,
              !.Until = Empty, !.Columns = NoColumns]

C10_CustomSelectAlone ==
    (pc \notin {"loop", "done"} /\ TrimSpace(opts.SelectSQL) # <<>>) =>
        /\ countQuery # NoQuery =>
              /\ countQuery = CountQueryOf(WithoutFilters(opts))
              /\ countQuery.kind = "count_sub" /\ countQuery.from = opts.SelectSQL
        /\ query # NoQuery =>
              /\ query = ExtractQueryOf(WithoutFilters(opts), SrcDriver)
              /\ query.kind = "custom" /\ query.from = opts.SelectSQL
        /\ (Extracted /\ pc \notin {"ensure", "plan"}) =>
              insertColumns = buildInsertColumns(cols, WithoutFilters(opts))
        /\ (Extracted /\ pc \notin {"ensure", "plan", "insert"} /\ fetched > 0) =>
              args = reorderArgs(cols, buildInsertColumns(cols, WithoutFilters(opts)),
                                 RowValues(cols, fetched), WithoutFilters(opts))

C10_Witness ==
    /\ Succeeded /\ TrimSpace(opts.SelectSQL) # <<>>
    /\ opts.Columns = RenameK
    /\ cols = SrcColumns
    /\ insertColumns = <<ColI>>
    /\ buildInsertColumns(cols, WithoutFilters(opts)) = SrcColumns
    /\ ret.migrated > 0

(***************************************************************************)
(* C11: a CREATE TABLE statement is built and issued only for a job with   *)
(* AutoCreate set, outside a dry run, after the existence probe reported   *)
(* the target table absent; when the target table already exists the job   *)
(* issues no CREATE TABLE; and the rows a target table held before are     *)
(* neither changed nor removed.                                            *)
(***************************************************************************)
C11_CreateOnlyWhenAbsent ==
    /\ dstLog.built = 1 =>
          opts.AutoCreate /\ dstLog.probe \in {"absent", "failed"}
    /\ dstLog.issued = 1 =>
          opts.AutoCreate /\ ~opts.DryRun /\ dstLog.built = 1
    /\ (/\ pc \notin {"loop", "done"}
        /\ dstLog.probe # "none"
        /\ dstLog.ddl = 0
        /\ TableRows(target, CreatedTable) # Absent) => dstLog.issued = 0
    /\ \A t \in TargetNames : target0[t] # Absent => target[t] >= target0[t]
    /\ (tgtBefore # Absent /\ pc \notin {"loop", "done"}) =>
          TableRows(target, WriteTable) >= tgtBefore

C11_Witness ==
    /\ pc = "returned" /\ ret.err = "autocreate"
    /\ dstDriver = "postgres"
    /\ opts.AutoCreate /\ ~opts.DryRun
    /\ targetTable = quoteIdent(TblS, DstDriver)
    /\ dstLog.probe = "absent" /\ dstLog.issued = 1 /\ dstLog.ddl = 0
    /\ TableRows(target, CreatedTable) # Absent
    /\ Len(results) = 1 /\ results[1].MigratedCount > 0

(***************************************************************************)
(* C12: for every driver the existence probe returns no error: a probe     *)
(* that fails, or that returns no row, answers "does not exist", and the   *)
(* answer is "exists" only when the probe query returned a row.  So with   *)
(* AutoCreate a failed probe is followed by the CREATE TABLE (outside a    *)
(* dry run, where the statement is not executed), and the auto-create step *)
(* fails the job only when that CREATE TABLE was issued and failed.        *)
(***************************************************************************)
C12_ProbeNeverFails ==
    /\ dstLog.probe # "error"
    /\ \A d \in Drivers, f \in BOOLEAN :
       \A t \in {TblS, quoteIdent(TblS, d), targetTable} :
          /\ ~checkTableExists(target, t, d, f).err
          /\ f => ~checkTableExists(target, t, d, f).exists
          /\ checkTableExists(target, t, d, f).exists =>
                TableRows(target, ProbeKey(t, normalizeDriver(d))) # Absent
          /\ (~f /\ TableRows(target, ProbeKey(t, normalizeDriver(d))) = Absent) =>
                ~checkTableExists(target, t, d, f).exists
    /\ dstLog.probe = "exists" =>
          /\ TableRows(target, ProbeKey(targetTable, normalizeDriver(dstDriver))) # Absent
          /\ dstLog.built = 0 /\ dstLog.issued = 0
    /\ dstLog.probe = "failed" =>
          /\ opts.AutoCreate
          /\ dstLog.issued = IF opts.DryRun THEN 0 ELSE 1
    /\ (pc = "returned" /\ ret.err = "autocreate") =>
          /\ ~opts.DryRun
          /\ dstLog.issued = 1 /\ dstLog.ddl = 0
    /\ (dstLog.probe = "failed" /\ dstLog.ddl = 1) =>
          (pc = "returned" => ret.err # "autocreate")

C12_Witness ==
    /\ Succeeded /\ ~opts.DryRun /\ opts.AutoCreate
    /\ dstDriver = "oracle"
    /\ dstLog.probe = "failed" /\ dstLog.issued = 1 /\ dstLog.ddl = 1
    /\ ret.migrated > 0
    /\ target[TblUpperS] = ret.migrated

(***************************************************************************)
(* C13: in the CREATE TABLE that buildCreateTableDDL returns, a column     *)
(* whose mapping gives a non-blank TargetType is defined with exactly that *)
(* type, trimmed, for every dialect and every number of columns.           *)
(***************************************************************************)
Built == call.fn = "ddl" /\ call.out # Pending

ExplicitType(i) ==
    IF \E j \in 1..Len(call.columns) : call.columns[j].Source = call.colTypes[i].Name
    THEN TrimSpace(call.columns[1].TargetType)
    ELSE <<>>

C13_ExplicitTypeWins ==
    Built =>
        \A i \in 1..Len(call.colTypes) :
            ExplicitType(i) # <<>> => call.out.defs[i].type = ExplicitType(i)

C13_Witness ==
    /\ Built
    /\ call.driver = "mysql" /\ Len(call.colTypes) = LargeTableColumns + 1
    /\ ExplicitType(1) = Ty.VARCHAR_255
    /\ call.out.defs[1].type = Ty.TEXT

(***************************************************************************)
(* C14: for the MySQL dialect and a table of more than 30 columns, no      *)
(* column of the CREATE TABLE is defined with a type whose text begins     *)
(* with VARCHAR or CHAR as the code tests it (in capitals): every such     *)
(* type, chosen by the translator or given in a mapping, is replaced by    *)
(* TEXT, and every other type is kept, an explicit type written in another *)
(* letter case included.  For 30 columns or fewer, and for every other     *)
(* dialect, each column keeps the type chosen for it.                      *)
(***************************************************************************)
Mapped2 == call.fn = "ddl" /\ call.mapped # <<>>

ChosenType(i) == IF ExplicitType(i) # <<>> THEN ExplicitType(i) ELSE call.mapped[i]

BoundedChar(t) == HasPrefixStr(t, Ty.VARCHAR) \/ HasPrefixStr(t, Ty.CHAR)

LargeMySQL ==
    normalizeDriver(call.driver) = "mysql" /\ Len(call.colTypes) > LargeTableColumns

SourceBits(t) ==
    CASE ToUpper(t) = Ty.TINYINT -> 8
      [] ToUpper(t) = Ty.SMALLINT -> 16
      [] ToUpper(t) \in {Ty.INT, Ty.INTEGER} -> 32
      [] ToUpper(t) = Ty.BIGINT -> 64
      [] OTHER -> 0

TargetBits(t, driver) ==
    CASE t = Ty.BIGINT -> 64
      [] t = Ty.INT -> 32
      [] t = Ty.INTEGER -> 64
      [] t = Ty.NUMBER -> 126
      [] OTHER -> 0

C15_IntegerNeverNarrowed ==
    Mapped2 =>
        \A i \in 1..Len(call.colTypes) :
            SourceBits(call.colTypes[i].DatabaseTypeName) > 0 =>
                TargetBits(call.mapped[i], call.driver)
                    >= SourceBits(call.colTypes[i].DatabaseTypeName)

C15_Witness ==
    /\ Mapped2
    /\ call.driver = "mysql"
    /\ call.colTypes[1].DatabaseTypeName = Ty.BIGINT
    /\ call.mapped[1] = Ty.INT

(***************************************************************************)
(* C16: when the mappings have pairwise distinct source names and pairwise *)
(* distinct target names, the target of every mapped result column is an   *)
(* insert column, and the argument bound to an insert column t is the      *)
(* row's value of the result column that the mapping maps to t; so for     *)
(* the mappings a -> b, b -> a the column b receives the value of a and    *)
(* the column a the value of b.                                            *)
(***************************************************************************)
Bound == call.fn = "args" /\ call.args # Unset

Used == {j \in 1..Len(call.columns) : TrimSpace(call.columns[j].Source) # <<>>}

SourceName(j) == TrimSpace(call.columns[j].Source)

TargetName(j) ==
    IF TrimSpace(call.columns[j].Target) = <<>> THEN TrimSpace(call.columns[j].Source)
    ELSE TrimSpace(call.columns[j].Target)

DistinctNames ==
    \A i \in Used, j \in Used :
        i # j => (SourceName(i) # SourceName(j) /\ TargetName(i) # TargetName(j))

InResult(n) == \E k \in 1..Len(call.sourceCols) : call.sourceCols[k] = n

C16_MappedValueBound ==
    (Bound /\ DistinctNames) =>
        /\ Len(call.args) = Len(call.insertCols)
        /\ \A j \in Used :
              InResult(SourceName(j)) =>
                 \E i \in 1..Len(call.insertCols) :
                    /\ call.insertCols[i] = TargetName(j)
                    /\ call.args[i] = <<"v">> \o SourceName(j)
        /\ \A i \in 1..Len(call.insertCols), j \in Used :
              (call.insertCols[i] = TargetName(j) /\ InResult(SourceName(j))) =>
                 call.args[i] = <<"v">> \o SourceName(j)

C16_Witness ==
    /\ Bound /\ DistinctNames
    /\ call.sourceCols = <<ColA, ColB>>
    /\ Len(call.columns) = 2
    /\ SourceName(1) = ColB /\ TargetName(1) = ColA
    /\ SourceName(2) = ColA /\ TargetName(2) = ColB
    /\ call.insertCols = <<ColB, ColA>>
    /\ call.args = << <<"v", "a">>, <<"v", "b">> >>

(***************************************************************************)
(* C17: reorderArgs binds each insert column t to the value of the source  *)
(* that the mappings map to t (the last such mapping) when that source is  *)
(* a result column, otherwise to the value of the result column named t,   *)
(* otherwise to NULL; an argument is NULL only when both lookups find no   *)
(* result column, and one argument is produced for every insert column.    *)
(***************************************************************************)
MappingsTo(t) == {j \in Used : TargetName(j) = t}

ReverseSource(t) ==
    SourceName(CHOOSE j \in MappingsTo(t) : \A k \in MappingsTo(t) : k <= j)

ViaMapping(t) == MappingsTo(t) # {} /\ InResult(ReverseSource(t))

C17_ArgumentResolution ==
    Bound =>
        /\ Len(call.args) = Len(call.insertCols)
        /\ \A i \in 1..Len(call.insertCols) :
              /\ ViaMapping(call.insertCols[i]) =>
                    call.args[i] = <<"v">> \o ReverseSource(call.insertCols[i])
              /\ (~ViaMapping(call.insertCols[i]) /\ InResult(call.insertCols[i])) =>
                    call.args[i] = <<"v">> \o call.insertCols[i]
              /\ call.args[i] = Nil <=>
                    (~ViaMapping(call.insertCols[i]) /\ ~InResult(call.insertCols[i]))

C17_Witness ==
    /\ Bound
    /\ call.sourceCols = <<ColA>>
    /\ call.insertCols = <<ColC>>
    /\ MappingsTo(ColC) # {} /\ ReverseSource(ColC) = ColB
    /\ call.args = <<Nil>>

(***************************************************************************)
(* C18: quoting the result of quoteIdent again, for the same driver,       *)
(* returns that result, and an identifier that begins with the dialect's   *)
(* opening quote character and ends with its closing one is returned as    *)
(* it is.                                                                  *)
(***************************************************************************)
OpenQuote(d) ==
    CASE d \in {"postgres", "oracle"} -> "\""
      [] d \in {"sqlserver", "mssql"} -> "["
      [] OTHER -> Backtick

CloseQuote(d) ==
    CASE d \in {"postgres", "oracle"} -> "\""
      [] d \in {"sqlserver", "mssql"} -> "]"
      [] OTHER -> Backtick

CarriesQuotes(x, d) ==
    Len(x) >= 2 /\ x[1] = OpenQuote(d) /\ x[Len(x)] = CloseQuote(d)

C18_QuoteIdempotent ==
    /\ (call.fn = "quote" /\ call.twice # Unset) => call.twice = call.once
    /\ (call.fn = "quote" /\ call.once # Unset /\ CarriesQuotes(call.name, call.driver)) =>
          call.once = call.name

C18_Witness ==
    /\ call.fn = "quote"
    /\ call.name = <<" ", "a">> /\ call.driver = "oracle"
    /\ call.once = <<"\"", "A", "\"">>
    /\ call.twice = call.once

(***************************************************************************)
(* C19: in from_source mode the final table list starts with the list      *)
(* entries that have a non-blank source_table, each with its own           *)
(* configuration; after them comes, for every discovered table that no     *)
(* list entry names, exactly one entry when the table passes the filters   *)
(* and none otherwise; a discovered table that a list entry names has no   *)
(* further entry.                                                          *)
(***************************************************************************)
Listed == call.fn = "list" /\ call.step = "listed"

OwnEntries == SelectSeq(call.TableList.List, LAMBDA t : TrimSpace(t.SourceTable) # <<>>)

ConfiguredInList(name) ==
    \E i \in 1..Len(call.TableList.List) : TrimSpace(call.TableList.List[i].SourceTable) = name

UsablePatterns(patterns) ==
    {patterns[i] : i \in {j \in 1..Len(patterns) : patterns[j] \notin {<<>>, PatInvalid}}}

PassesFilters(name) ==
    /\ \A p \in UsablePatterns(call.TableList.Exclude) : ~MatchString(p, name)
    /\ \/ UsablePatterns(call.TableList.Include) = {}
       \/ \E p \in UsablePatterns(call.TableList.Include) : MatchString(p, name)

FurtherEntries(name) ==
    {i \in (Len(OwnEntries) + 1)..Len(call.tables) : TrimSpace(call.tables[i].SourceTable) = name}

C19_FromSourceTableList ==
    Listed =>
        /\ Len(call.tables) >= Len(OwnEntries)
        /\ \A i \in 1..Len(OwnEntries) :
              i <= Len(call.tables) =>
                 call.tables[i] =
                    [OwnEntries[i] EXCEPT !.BatchSize =
                        IF OwnEntries[i].BatchSize <= 0 THEN DefaultBatchSize
                        ELSE OwnEntries[i].BatchSize]
        /\ \A k \in 1..Len(call.names) :
              Cardinality(FurtherEntries(call.names[k])) =
                 IF ~ConfiguredInList(call.names[k]) /\ PassesFilters(call.names[k])
                 THEN 1 ELSE 0

C19_Witness ==
    /\ Listed
    /\ Len(call.TableList.Defaults) = 0
    /\ call.TableList.Include = <<>> /\ call.TableList.Exclude = <<>>
    /\ Len(call.TableList.List) = 1
    /\ call.TableList.List[1].SourceTable = <<" ", "s">>
    /\ call.TableList.List[1].TargetTable = TblX
    /\ call.names = <<TblS>>
    /\ Len(call.tables) = 2
    /\ call.tables[1].SourceTable = <<" ", "s">>
    /\ call.tables[2].SourceTable = TblS /\ call.tables[2].TargetTable = Empty

(***************************************************************************)
(* C20: during the copy of a table at most one transaction that was begun  *)
(* on the target is not committed, and it is the one the copy holds; the   *)
(* next transaction is begun only when the previous one is committed; a    *)
(* transaction never holds more rows than one batch; and when copyTable    *)
(* has returned, so before the copy of the next table starts, no           *)
(* transaction is open.                                                    *)
(***************************************************************************)
Uncommitted == dstLog.begin - dstLog.commit

C20_OneOpenTransaction ==
    /\ Uncommitted \in {0, 1}
    /\ tx.state = "open" => Uncommitted = 1
    /\ Uncommitted = 1 => tx.state \in {"open", "rolledback", "aborted"}
    /\ pc = "rebegin" => (tx.state = "committed" /\ Uncommitted = 0)
    /\ tx.state = "open" => tx.pending <= opts.BatchSize
    /\ \A i \in 1..Len(commits) : commits[i] <= opts.BatchSize
    /\ pc \in {"returned", "loop", "fatal", "done"} => tx.state # "open"

C20_Witness ==
    /\ ti = 2 /\ Len(results) = 1
    /\ pc = "insert"
    /\ dstLog.begin = 2 /\ dstLog.commit = 1
    /\ tx.state = "open" /\ tx.pending = 0
    /\ commits = <<opts.BatchSize>>

(***************************************************************************)
(* C21: a job moves through its phases in the order source count,          *)
(* extraction query, optional target-table creation, writing, target       *)
(* count, reconciliation, and returns successfully only from the target    *)
(* count: the extraction query is issued after the count query, a CREATE   *)
(* TABLE is issued while no transaction has been begun, the target is      *)
(* counted, outside a dry run, when all rows are fetched and the last      *)
(* transaction is committed, and the classification of a successful job    *)
(* is determined by the source count and the target count.                 *)
(***************************************************************************)
Phase(p) ==
    CASE p = "loop" -> 0
      [] p = "count_src" -> 1
      [] p = "query" -> 2
      [] p = "ensure" -> 3
      [] p \in {"plan", "next", "insert", "commit", "rebegin", "final"} -> 4
      [] p = "count_tgt" -> 5
      [] OTHER -> 6

ByCounts(sc, tc) ==
    IF sc < 0 \/ tc < 0 THEN "none"
    ELSE IF tc = sc THEN "match"
    ELSE IF tc > sc THEN "surplus" ELSE "deficit"

C21_PhaseOrder ==
    /\ [](query # NoQuery => countQuery # NoQuery)
    /\ [](dstLog.begin > 0 => query # NoQuery)
    /\ []((pc = "count_tgt" /\ ~opts.DryRun) =>
             (tx.state = "committed" /\ fetched = nrows /\ dstLog.begin = dstLog.commit))
    /\ [][(Phase(pc') \in 1..5 /\ pc' # pc) =>
             \/ Phase(pc') = Phase(pc)
             \/ Phase(pc') = Phase(pc) + 1
             \/ Phase(pc) = 2 /\ Phase(pc') = 4 /\ ~opts.AutoCreate]_vars
    /\ [][dstLog'.issued > dstLog.issued =>
             (pc = "ensure" /\ dstLog.begin = 0 /\ tx.state = "nil")]_vars
    /\ [][(pc' = "returned" /\ pc # "returned" /\ ret'.err = "nil") =>
             /\ pc = "count_tgt"
             /\ ret'.source = sourceCount' /\ ret'.target = targetCount'
             /\ classification' = ByCounts(sourceCount', targetCount')]_vars

C21_Witness ==
    /\ pc = "returned" /\ ret.err = "nil"
    /\ ~opts.DryRun /\ opts.AutoCreate
    /\ dstLog.issued = 1 /\ dstLog.ddl = 1
    /\ dstLog.commit = 2 /\ ret.migrated = opts.BatchSize
    /\ classification = "match"

(***************************************************************************)
(* C22: a successful copy that writes N extracted rows in batches of B     *)
(* commits N \div B + 1 times; when N is a multiple of B (N = 0 included)  *)
(* the last commit is of a transaction without rows.  2000 rows in         *)
(* batches of 1000 are committed as 1000, 1000, 0.                         *)
(***************************************************************************)
C22_CommitCount ==
    (Succeeded /\ ~opts.DryRun) =>
        /\ Len(commits) = (nrows \div opts.BatchSize) + 1
        /\ dstLog.commit = (nrows \div opts.BatchSize) + 1
        /\ nrows % opts.BatchSize = 0 => commits[Len(commits)] = 0
        /\ nrows % opts.BatchSize # 0 => commits[Len(commits)] > 0
        /\ (nrows = 2000 /\ opts.BatchSize = 1000) => commits = <<1000, 1000, 0>>

C22_Witness ==
    /\ Succeeded /\ ~opts.DryRun
    /\ nrows = 2000 /\ opts.BatchSize = 1000
    /\ dstLog.commit = 3
    /\ commits = <<1000, 1000, 0>>

(***************************************************************************)
(* C23: when copyTable returns an error, the migrated count, the source    *)
(* count and the target count it returns are 0, whatever was counted and   *)
(* whatever batches were committed to the target before the error.         *)
(***************************************************************************)
C23_ErrorReturnsZeros ==
    (pc = "returned" /\ ret.err # "nil") =>
        (ret.migrated = 0 /\ ret.source = 0 /\ ret.target = 0)

C23_Witness ==
    /\ pc = "returned" /\ ret.err = "insert"
    /\ sourceCount = MaxRows
    /\ commits = <<1, 1>>
    /\ TableRows(target, WriteTable) = tgtBefore + 2
    /\ ret.migrated = 0 /\ ret.source = 0 /\ ret.target = 0

(***************************************************************************)
(* C24: the number of committed rows of a target table never decreases     *)
(* from one step of a run to the next, over all the jobs of the run; when  *)
(* a batch has been committed the rows committed by the job are as many as *)
(* the running row counter; and after a successful job that writes, the    *)
(* target table holds the rows it held before the job plus one row per     *)
(* extracted row.                                                          *)
(***************************************************************************)
RowsOf(store, t) == IF store[t] = Absent THEN 0 ELSE store[t]

C24_AppendOnly ==
    /\ [][\A t \in TargetNames :
             /\ RowsOf(target', t) >= RowsOf(target, t)
             /\ target[t] # Absent => target'[t] # Absent]_vars
    /\ [](pc = "rebegin" =>
             /\ SumSeq(commits) = count
             /\ TableRows(target, WriteTable) = tgtBefore + count)
    /\ []((Succeeded /\ ~opts.DryRun) =>
             /\ SumSeq(commits) = nrows
             /\ TableRows(target, WriteTable) = tgtBefore + nrows)

C24_Witness ==
    /\ Succeeded /\ ~opts.DryRun
    /\ ti = 2 /\ Len(results) = 1
    /\ nrows = 2 /\ tgtBefore = 3
    /\ TableRows(target, WriteTable) = 5
    /\ TableRows(target0, WriteTable) = 1

(***************************************************************************)
(* C25: for every row that is inserted, the arguments are as many as the   *)
(* placeholders of the INSERT statement and as many as the insert columns, *)
(* whatever the mappings are; the i-th placeholder is $i for postgres, :i  *)
(* for oracle and ? for the other drivers, i counting from 1.              *)
(***************************************************************************)
RowBound == call.fn = "args" /\ call.args # Unset

ExpectedPlaceholder(d, i) ==
    CASE d = "postgres" -> <<"$">> \o Itoa(i)
      [] d = "oracle" -> <<":">> \o Itoa(i)
      [] OTHER -> <<"?">>

C25_ArgumentsMatchPlaceholders ==
    RowBound =>
        /\ Len(call.insertCols) >= 1
        /\ Len(call.args) = Len(call.insertCols)
        /\ Len(call.insertSQL.values) = Len(call.insertCols)
        /\ Len(call.insertSQL.cols) = Len(call.insertCols)
        /\ \A i \in 1..Len(call.insertSQL.values) :
              call.insertSQL.values[i] = ExpectedPlaceholder(call.driver, i)

C25_Witness ==
    /\ RowBound
    /\ call.driver = "oracle"
    /\ call.sourceCols = <<ColA, ColB>>
    /\ Len(call.columns) = 1
    /\ call.columns[1].Source = ColC /\ call.columns[1].Target = ColA
    /\ call.insertCols = <<ColA, ColB>>
    /\ call.insertSQL.values = << <<":", "1">>, <<":", "2">> >>
    /\ Len(call.args) = 2

(***************************************************************************)
(* C26: in the report of a completed run the aggregate diff is the known   *)
(* target total minus the known source total, also when a count of some    *)
(* table is unknown; when both counts of every table are known it is the   *)
(* sum of the tables' diffs, and the aggregate class is match exactly when *)
(* that sum is 0, whatever the number of differing tables is.              *)
(***************************************************************************)
RECURSIVE DiffSum(_)
DiffSum(rs) ==
    IF rs = <<>> THEN 0
    ELSE (Head(rs).TargetCount - Head(rs).SourceCount) + DiffSum(Tail(rs))

AllCountable(rs) ==
    \A i \in 1..Len(rs) : rs[i].SourceCount >= 0 /\ rs[i].TargetCount >= 0

C26_AggregateDiff ==
    pc = "done" =>
        /\ report.totalDiff =
              KnownSum(results, "TargetCount") - KnownSum(results, "SourceCount")
        /\ AllCountable(results) =>
              /\ report.totalDiff = DiffSum(results)
              /\ \A i \in 1..Len(results) :
                    results[i].Diff = results[i].TargetCount - results[i].SourceCount
              /\ report.class = "match" <=> DiffSum(results) = 0
        /\ report.class = "match" <=> report.totalDiff = 0

C26_Witness ==
    /\ pc = "done" /\ Len(results) = 2
    /\ AllCountable(results)
    /\ results[1].Diff = -1 /\ results[2].Diff = 1
    /\ diffTableCount = 2 /\ Len(report.listed) = 2
    /\ report.totalDiff = 0 /\ report.class = "match"

(***************************************************************************)
(* C27: in a dry run no row is inserted and nothing is committed, no       *)
(* second transaction is begun whatever the batch size is, and at most the *)
(* first SampleRows rows are logged; yet a successful job returns the      *)
(* number of extracted rows as its migrated count, and the run's migrated  *)
(* total adds these counts up while the target is as it was.               *)
(***************************************************************************)
C27_DryRunCountsExtractedRows ==
    cliDryRun =>
        /\ commits = <<>> /\ dstLog.commit = 0 /\ dstLog.insert = 0
        /\ dstLog.begin <= 1
        /\ pc \notin {"commit", "rebegin"}
        /\ samples = IF count < SampleRows THEN count ELSE SampleRows
        /\ target = target0
        /\ Succeeded => (ret.migrated = nrows /\ nrows = srcN)
        /\ totalMigratedCount = Len(results) * srcN

C27_Witness ==
    /\ cliDryRun /\ Succeeded
    /\ ti = 2 /\ Len(results) = 1
    /\ opts.BatchSize = 1
    /\ nrows = SampleRows + 1 /\ ret.migrated = SampleRows + 1
    /\ samples = SampleRows
    /\ totalMigratedCount = SampleRows + 1
    /\ dstLog.begin = 1 /\ commits = <<>>
    /\ target = target0

====
